---- MODULE Spec2Model ----
(***************************************************************************)
(* Model of the living-world core of the city-exploration prototype:       *)
(*   - the World Generator (world.js, kept as src/unnamed/part_001) with   *)
(*     its coordinate hash and name generator (src/util.js);               *)
(*   - the War Simulation (src/war.js) with its sequential generator.      *)
(*                                                                         *)
(* Numbers.  JavaScript numbers are doubles; the model keeps them in fixed *)
(* point, rounding down.  A hash value r in [0,1) is the integer           *)
(* floor(r * HashScale).  A world coordinate is held in units of 1/FP.     *)
(* Math.sin cannot be evaluated with integer arithmetic, so seededRandom   *)
(* is tabulated: HashRows holds the value of the source function at every  *)
(* argument triple the model can ask for.                                  *)
(*                                                                         *)
(* Elapsed time is held in units of 1/TimeScale and a position of the war   *)
(* plane in units of 1/WarScale.  The state of the sequential generator is *)
(* a 32-bit word, kept exactly, as its two 16-bit halves; the value that   *)
(* next() returns is the pair <<h, l>> that stands for                     *)
(* (h * 2^16 + l) / 2^32.                                                  *)
(*                                                                         *)
(* Strings.  A formatted string is the sequence of its parts, a key        *)
(* "x,z" is the pair <<x, z>> and a door id "cx,cz,i,j" the 4-tuple.       *)
(* A value that may be null is a sequence: <<>> for null, <<v>> for v.     *)
(***************************************************************************)
EXTENDS Integers, Sequences, FiniteSets, TLC

\* ------------------------------------------------------------------ bounds
\* Reference positions handed to WorldManager.update lie in the chunks
\* 0..MaxChunkX of the x axis and 1..MaxChunkZ of the z axis (and chunk -1 of
\* the x axis).
MaxChunkX == 3
MaxChunkZ == 3
\* WorldManager.update is called at most MaxUpdates times in a behaviour, and
\* at most MaxQueryUpdates times in a behaviour that also makes queries.
MaxUpdates == 3
MaxQueryUpdates == 1
\* getNearbyDoor is probed around the first MaxProbeDoors doors of the list.
MaxProbeDoors == 5
\* Fixed-point resolution of world coordinates: FP units per world unit.
FP == 20
\* _getChunkType is sampled at TypeSamples evenly spaced hash values (and at
\* its thresholds).
TypeSamples == 60
\* WarManager.update runs at most MaxTicks simulation ticks in a behaviour.
MaxTicks == 48
\* _pushEvent is called directly at most MaxPushes times in a behaviour.
MaxPushes == 12
\* getRandomRecentEvent is called at most MaxSamples times in a behaviour.
MaxSamples == 2
\* enterInteriorFromDoor is called at most MaxEnters times in a behaviour, on
\* one of the first MaxEnterDoors doors of the door list.
MaxEnters == 2
MaxEnterDoors == 2
\* A unit created at the start is sent to one of MaxArmyTargets targets.
MaxArmyTargets == 2
\* handleCollisions is probed around the first MaxProbeColliders colliders.
MaxProbeColliders == 6

\* -------------------------------------------------------------------- state
VARIABLES
  chunks,     \* WorldManager.chunks: the Map's entries in insertion order
  colliders,  \* WorldManager.colliders
  doors,      \* WorldManager.doors
  scene,      \* keys of the chunk groups attached to the scene
  ret,        \* the last WorldManager call: its arguments and what it returned
  gens,       \* history: per chunk key, what its first generation appended
  updates,    \* history: the number of WorldManager.update calls made
  probe,      \* a hash value and the chunk type _getChunkType derives from it
  bases,            \* WarManager.bases
  units,            \* WarManager.units
  lastBaseId,       \* WarManager.lastBaseId
  lastUnitId,       \* WarManager.lastUnitId
  timeAccumulator,  \* WarManager.timeAccumulator, in units of 1/TimeScale
  recentEvents,     \* WarManager.recentEvents, newest first
  randomSeed,       \* WarManager.random.seed, as <<high half, low half>>
  ticks,            \* history: the number of simulation ticks run
  wret,             \* the last WarManager call: its argument and what it did
  calls,            \* history: the number of calls made besides update
  interiorsByDoorId,  \* InteriorsManager.interiorsByDoorId
  activeInterior,     \* InteriorsManager.activeInterior
  interiorScene,      \* the interior groups added to InteriorsManager.scene
  iret                \* the last InteriorsManager call and what it returned

worldVars == <<chunks, colliders, doors, scene, ret, gens, updates>>

warVars == <<bases, units, lastBaseId, lastUnitId, timeAccumulator, recentEvents,
            randomSeed, ticks, wret, calls>>

interiorVars == <<interiorsByDoorId, activeInterior, interiorScene, iret>>

vars == <<chunks, colliders, doors, scene, ret, gens, updates, probe,
          bases, units, lastBaseId, lastUnitId, timeAccumulator, recentEvents,
          randomSeed, ticks, wret, calls,
          interiorsByDoorId, activeInterior, interiorScene, iret>>

\* --------------------------------------------------------------- constants
CHUNK_SIZE == 80
globalSeed == 4242
activeRadius == 1
nameSeed == 1337
HashScale == 100000

Null == <<>>
Some(v) == <<v>>

Abs(n) == IF n < 0 THEN -n ELSE n
Min2(a, b) == IF a <= b THEN a ELSE b

\* Number(r) * k for a hash value r, in world fixed point (rounded down).
ToFP(r) == (r * FP) \div HashScale

\* ------------------------------------------------- deterministic hash table
\* <<x, y, seed>> :> floor(seededRandom(x, y, seed) * HashScale), at every
\* argument triple the model asks for.
HashRows ==
     (    <<-403571,-403571,99>> :> 69366 @@ <<-403571,-403534,99>> :> 6518 @@ <<-403571,-403497,99>> :> 54227
       @@ <<-403571,-403460,99>> :> 64876 @@ <<-403554,-403571,99>> :> 26771 @@ <<-403554,-403534,99>> :> 37685
       @@ <<-403554,-403497,99>> :> 23312 @@ <<-403554,-403460,99>> :> 53494 @@ <<-403537,-403571,99>> :> 74442
       @@ <<-403537,-403534,99>> :> 24946 @@ <<-403537,-403497,99>> :> 80477 @@ <<-403537,-403460,99>> :> 20326
       @@ <<-403520,-403571,99>> :> 92709 @@ <<-403520,-403534,99>> :> 97024 @@ <<-403520,-403497,99>> :> 28418
       @@ <<-403520,-403460,99>> :> 83662 @@ <<-379667,-379667,99>> :> 97307 @@ <<-379667,-379630,99>> :> 29651
       @@ <<-379667,-379593,99>> :> 59540 @@ <<-379650,-379667,99>> :> 6559 @@ <<-379650,-379630,99>> :> 71963
       @@ <<-379650,-379593,99>> :> 30835 @@ <<-379633,-379667,99>> :> 88119 @@ <<-379633,-379630,99>> :> 24629
       @@ <<-379633,-379593,99>> :> 84689 @@ <<-334654,-334654,99>> :> 73040 @@ <<-334654,-334617,99>> :> 89500
       @@ <<-334654,-334580,99>> :> 67509 @@ <<-334654,-334543,99>> :> 55341 @@ <<-334637,-334654,99>> :> 29750
       @@ <<-334637,-334617,99>> :> 77132 @@ <<-334637,-334580,99>> :> 79368 @@ <<-334637,-334543,99>> :> 41858
       @@ <<-334620,-334654,99>> :> 92446 @@ <<-334620,-334617,99>> :> 8760 @@ <<-334620,-334580,99>> :> 92379
       @@ <<-334620,-334543,99>> :> 46388 @@ <<-334603,-334654,99>> :> 91834 @@ <<-334603,-334617,99>> :> 20716 )
  @@ (    <<-334603,-334580,99>> :> 76674 @@ <<-334603,-334543,99>> :> 78263 @@ <<-310750,-310750,99>> :> 39495
       @@ <<-310750,-310713,99>> :> 27521 @@ <<-310750,-310676,99>> :> 14005 @@ <<-310750,-310639,99>> :> 17947
       @@ <<-310733,-310750,99>> :> 14707 @@ <<-310733,-310713,99>> :> 47266 @@ <<-310733,-310676,99>> :> 94010
       @@ <<-310733,-310639,99>> :> 43229 @@ <<-310716,-310750,99>> :> 65063 @@ <<-310716,-310713,99>> :> 54199
       @@ <<-310716,-310676,99>> :> 39323 @@ <<-310716,-310639,99>> :> 40009 @@ <<-310699,-310750,99>> :> 6429
       @@ <<-310699,-310713,99>> :> 71753 @@ <<-310699,-310676,99>> :> 75563 @@ <<-310699,-310639,99>> :> 38889
       @@ <<-286846,-286846,99>> :> 83925 @@ <<-286846,-286809,99>> :> 21244 @@ <<-286846,-286772,99>> :> 54106
       @@ <<-286846,-286735,99>> :> 62521 @@ <<-286829,-286846,99>> :> 16098 @@ <<-286829,-286809,99>> :> 43693
       @@ <<-286829,-286772,99>> :> 84229 @@ <<-286829,-286735,99>> :> 50605 @@ <<-286812,-286846,99>> :> 25123
       @@ <<-286812,-286809,99>> :> 70713 @@ <<-286812,-286772,99>> :> 65279 @@ <<-286812,-286735,99>> :> 43045
       @@ <<-286795,-286846,99>> :> 29628 @@ <<-286795,-286809,99>> :> 51467 @@ <<-286795,-286772,99>> :> 34578
       @@ <<-286795,-286735,99>> :> 50508 @@ <<-265737,-265737,99>> :> 78815 @@ <<-265737,-265700,99>> :> 97882
       @@ <<-265737,-265663,99>> :> 28249 @@ <<-265720,-265737,99>> :> 22306 @@ <<-265720,-265700,99>> :> 59155 )
  @@ (    <<-265720,-265663,99>> :> 66099 @@ <<-265703,-265737,99>> :> 75035 @@ <<-265703,-265700,99>> :> 21062
       @@ <<-265703,-265663,99>> :> 51209 @@ <<-241833,-241833,99>> :> 43297 @@ <<-241833,-241796,99>> :> 58548
       @@ <<-241833,-241759,99>> :> 84836 @@ <<-241816,-241833,99>> :> 57865 @@ <<-241816,-241796,99>> :> 48307
       @@ <<-241816,-241759,99>> :> 85202 @@ <<-241799,-241833,99>> :> 43766 @@ <<-241799,-241796,99>> :> 38648
       @@ <<-241799,-241759,99>> :> 35762 @@ <<-217929,-217929,99>> :> 18942 @@ <<-217929,-217892,99>> :> 94104
       @@ <<-217929,-217855,99>> :> 47580 @@ <<-217929,-217818,99>> :> 62924 @@ <<-217912,-217929,99>> :> 75560
       @@ <<-217912,-217892,99>> :> 94012 @@ <<-217912,-217855,99>> :> 47698 @@ <<-217912,-217818,99>> :> 49769
       @@ <<-217895,-217929,99>> :> 96860 @@ <<-217895,-217892,99>> :> 79064 @@ <<-217895,-217855,99>> :> 42240
       @@ <<-217895,-217818,99>> :> 29266 @@ <<-217878,-217929,99>> :> 47486 @@ <<-217878,-217892,99>> :> 49616
       @@ <<-217878,-217855,99>> :> 27007 @@ <<-217878,-217818,99>> :> 68558 @@ <<-194025,-194025,99>> :> 32815
       @@ <<-194025,-193988,99>> :> 74731 @@ <<-194025,-193951,99>> :> 77443 @@ <<-194025,-193914,99>> :> 18279
       @@ <<-194008,-194025,99>> :> 39195 @@ <<-194008,-193988,99>> :> 58010 @@ <<-194008,-193951,99>> :> 9648
       @@ <<-194008,-193914,99>> :> 86669 @@ <<-193991,-194025,99>> :> 20955 @@ <<-193991,-193988,99>> :> 90264 )
  @@ (    <<-193991,-193951,99>> :> 23664 @@ <<-193991,-193914,99>> :> 63447 @@ <<-193974,-194025,99>> :> 13741
       @@ <<-193974,-193988,99>> :> 70783 @@ <<-193974,-193951,99>> :> 10363 @@ <<-193974,-193914,99>> :> 96618
       @@ <<-149012,-149012,99>> :> 36391 @@ <<-149012,-148975,99>> :> 56814 @@ <<-149012,-148938,99>> :> 74851
       @@ <<-149012,-148901,99>> :> 26638 @@ <<-148995,-149012,99>> :> 72605 @@ <<-148995,-148975,99>> :> 1800
       @@ <<-148995,-148938,99>> :> 95721 @@ <<-148995,-148901,99>> :> 91325 @@ <<-148978,-149012,99>> :> 45607
       @@ <<-148978,-148975,99>> :> 43938 @@ <<-148978,-148938,99>> :> 63884 @@ <<-148978,-148901,99>> :> 93222
       @@ <<-148961,-149012,99>> :> 82756 @@ <<-148961,-148975,99>> :> 15881 @@ <<-148961,-148938,99>> :> 83451
       @@ <<-148961,-148901,99>> :> 16145 @@ <<-127903,-127903,99>> :> 81743 @@ <<-127903,-127866,99>> :> 12068
       @@ <<-127903,-127829,99>> :> 38897 @@ <<-127903,-127792,99>> :> 93203 @@ <<-127886,-127903,99>> :> 11309
       @@ <<-127886,-127866,99>> :> 67609 @@ <<-127886,-127829,99>> :> 61737 @@ <<-127886,-127792,99>> :> 16311
       @@ <<-127869,-127903,99>> :> 3040 @@ <<-127869,-127866,99>> :> 17871 @@ <<-127869,-127829,99>> :> 52705
       @@ <<-127869,-127792,99>> :> 69403 @@ <<-127852,-127903,99>> :> 15645 @@ <<-127852,-127866,99>> :> 32385
       @@ <<-127852,-127829,99>> :> 97564 @@ <<-127852,-127792,99>> :> 16515 @@ <<-125108,-125108,99>> :> 48241 )
  @@ (    <<-125108,-125071,99>> :> 67024 @@ <<-125108,-125034,99>> :> 33567 @@ <<-125091,-125108,99>> :> 20444
       @@ <<-125091,-125071,99>> :> 71626 @@ <<-125091,-125034,99>> :> 1273 @@ <<-125074,-125108,99>> :> 23247
       @@ <<-125074,-125071,99>> :> 34761 @@ <<-125074,-125034,99>> :> 74408 @@ <<-103999,-103999,99>> :> 95915
       @@ <<-103999,-103962,99>> :> 91726 @@ <<-103999,-103925,99>> :> 41175 @@ <<-103999,-103888,99>> :> 32732
       @@ <<-103982,-103999,99>> :> 43467 @@ <<-103982,-103962,99>> :> 52298 @@ <<-103982,-103925,99>> :> 2044
       @@ <<-103982,-103888,99>> :> 89243 @@ <<-103965,-103999,99>> :> 96911 @@ <<-103965,-103962,99>> :> 5045
       @@ <<-103965,-103925,99>> :> 17012 @@ <<-103965,-103888,99>> :> 68916 @@ <<-103948,-103999,99>> :> 50910
       @@ <<-103948,-103962,99>> :> 88765 @@ <<-103948,-103925,99>> :> 15107 @@ <<-103948,-103888,99>> :> 40765
       @@ <<-101204,-101204,99>> :> 21069 @@ <<-101204,-101167,99>> :> 31633 @@ <<-101204,-101130,99>> :> 9009
       @@ <<-101187,-101204,99>> :> 99543 @@ <<-101187,-101167,99>> :> 46101 @@ <<-101187,-101130,99>> :> 43801
       @@ <<-101170,-101204,99>> :> 65341 @@ <<-101170,-101167,99>> :> 29489 @@ <<-101170,-101130,99>> :> 19923
       @@ <<-80095,-80095,99>> :> 88895 @@ <<-80095,-80058,99>> :> 549 @@ <<-80095,-80021,99>> :> 49358
       @@ <<-80095,-79984,99>> :> 78723 @@ <<-80078,-80095,99>> :> 21641 @@ <<-80078,-80058,99>> :> 4249 )
  @@ (    <<-80078,-80021,99>> :> 7690 @@ <<-80078,-79984,99>> :> 94406 @@ <<-80061,-80095,99>> :> 4826
       @@ <<-80061,-80058,99>> :> 79436 @@ <<-80061,-80021,99>> :> 94490 @@ <<-80061,-79984,99>> :> 55749
       @@ <<-80044,-80095,99>> :> 24194 @@ <<-80044,-80058,99>> :> 71248 @@ <<-80044,-80021,99>> :> 69360
       @@ <<-80044,-79984,99>> :> 68915 @@ <<-58986,-58986,99>> :> 26979 @@ <<-58986,-58949,99>> :> 71528
       @@ <<-58986,-58912,99>> :> 78699 @@ <<-58986,-58875,99>> :> 73807 @@ <<-58969,-58986,99>> :> 22104
       @@ <<-58969,-58949,99>> :> 56275 @@ <<-58969,-58912,99>> :> 5369 @@ <<-58969,-58875,99>> :> 7868
       @@ <<-58952,-58986,99>> :> 33422 @@ <<-58952,-58949,99>> :> 36336 @@ <<-58952,-58912,99>> :> 6695
       @@ <<-58952,-58875,99>> :> 13418 @@ <<-58935,-58986,99>> :> 50251 @@ <<-58935,-58949,99>> :> 68955
       @@ <<-58935,-58912,99>> :> 4328 @@ <<-58935,-58875,99>> :> 93421 @@ <<-8383,-8383,99>> :> 28972
       @@ <<-8383,-8346,99>> :> 31637 @@ <<-8383,-8309,99>> :> 34636 @@ <<-8383,-8272,99>> :> 43082
       @@ <<-8366,-8383,99>> :> 34124 @@ <<-8366,-8346,99>> :> 80968 @@ <<-8366,-8309,99>> :> 52024
       @@ <<-8366,-8272,99>> :> 11931 @@ <<-8349,-8383,99>> :> 40733 @@ <<-8349,-8346,99>> :> 53342
       @@ <<-8349,-8309,99>> :> 50780 @@ <<-8349,-8272,99>> :> 61548 @@ <<-8332,-8383,99>> :> 26694 )
  @@ (    <<-8332,-8346,99>> :> 69424 @@ <<-8332,-8309,99>> :> 399 @@ <<-8332,-8272,99>> :> 38115
       @@ <<36630,36630,99>> :> 44553 @@ <<36630,36667,99>> :> 80899 @@ <<36630,36704,99>> :> 56598
       @@ <<36630,36741,99>> :> 47008 @@ <<36647,36630,99>> :> 78948 @@ <<36647,36667,99>> :> 8053
       @@ <<36647,36704,99>> :> 79027 @@ <<36647,36741,99>> :> 59863 @@ <<36664,36630,99>> :> 25005
       @@ <<36664,36667,99>> :> 13551 @@ <<36664,36704,99>> :> 47277 @@ <<36664,36741,99>> :> 56253
       @@ <<36681,36630,99>> :> 4590 @@ <<36681,36667,99>> :> 13361 @@ <<36681,36704,99>> :> 85393
       @@ <<36681,36741,99>> :> 46856 @@ <<78848,78848,99>> :> 19024 @@ <<78848,78885,99>> :> 99509
       @@ <<78848,78922,99>> :> 58119 @@ <<78848,78959,99>> :> 12881 @@ <<78865,78848,99>> :> 3389
       @@ <<78865,78885,99>> :> 20218 @@ <<78865,78922,99>> :> 11747 @@ <<78865,78959,99>> :> 18105
       @@ <<78882,78848,99>> :> 12123 @@ <<78882,78885,99>> :> 92521 @@ <<78882,78922,99>> :> 88391
       @@ <<78882,78959,99>> :> 24620 @@ <<78899,78848,99>> :> 88965 @@ <<78899,78885,99>> :> 80632
       @@ <<78899,78922,99>> :> 3718 @@ <<78899,78959,99>> :> 60308 @@ <<84438,84438,99>> :> 80467
       @@ <<84438,84475,99>> :> 97843 @@ <<84438,84512,99>> :> 93702 @@ <<84438,84549,99>> :> 73670 )
  @@ (    <<84455,84438,99>> :> 30776 @@ <<84455,84475,99>> :> 82492 @@ <<84455,84512,99>> :> 98480
       @@ <<84455,84549,99>> :> 13669 @@ <<84472,84438,99>> :> 4574 @@ <<84472,84475,99>> :> 81841
       @@ <<84472,84512,99>> :> 55575 @@ <<84472,84549,99>> :> 55855 @@ <<84489,84438,99>> :> 78135
       @@ <<84489,84475,99>> :> 25194 @@ <<84489,84512,99>> :> 71516 @@ <<84489,84549,99>> :> 66311
       @@ <<102752,102752,99>> :> 58701 @@ <<102752,102789,99>> :> 25224 @@ <<102752,102826,99>> :> 82448
       @@ <<102769,102752,99>> :> 74935 @@ <<102769,102789,99>> :> 56256 @@ <<102769,102826,99>> :> 58544
       @@ <<102786,102752,99>> :> 80855 @@ <<102786,102789,99>> :> 65909 @@ <<102786,102826,99>> :> 82455
       @@ <<105547,105547,99>> :> 5210 @@ <<105547,105584,99>> :> 11622 @@ <<105547,105621,99>> :> 28704
       @@ <<105547,105658,99>> :> 19053 @@ <<105564,105547,99>> :> 73835 @@ <<105564,105584,99>> :> 36002
       @@ <<105564,105621,99>> :> 3618 @@ <<105564,105658,99>> :> 84757 @@ <<105581,105547,99>> :> 74952
       @@ <<105581,105584,99>> :> 1568 @@ <<105581,105621,99>> :> 839 @@ <<105581,105658,99>> :> 77994
       @@ <<105598,105547,99>> :> 18979 @@ <<105598,105584,99>> :> 30452 @@ <<105598,105621,99>> :> 16188
       @@ <<105598,105658,99>> :> 16987 @@ <<126656,126656,99>> :> 74314 @@ <<126656,126693,99>> :> 11806 )
  @@ (    <<126656,126730,99>> :> 44403 @@ <<126656,126767,99>> :> 23215 @@ <<126673,126656,99>> :> 42195
       @@ <<126673,126693,99>> :> 12341 @@ <<126673,126730,99>> :> 46959 @@ <<126673,126767,99>> :> 51183
       @@ <<126690,126656,99>> :> 70743 @@ <<126690,126693,99>> :> 22873 @@ <<126690,126730,99>> :> 27832
       @@ <<126690,126767,99>> :> 46857 @@ <<126707,126656,99>> :> 91344 @@ <<126707,126693,99>> :> 63890
       @@ <<126707,126730,99>> :> 68246 @@ <<126707,126767,99>> :> 28808 @@ <<171669,171669,99>> :> 20944
       @@ <<171669,171706,99>> :> 96713 @@ <<171669,171743,99>> :> 27807 @@ <<171686,171669,99>> :> 31673
       @@ <<171686,171706,99>> :> 24696 @@ <<171686,171743,99>> :> 18588 @@ <<171703,171669,99>> :> 42951
       @@ <<171703,171706,99>> :> 44863 @@ <<171703,171743,99>> :> 19700 @@ <<174464,174464,99>> :> 60079
       @@ <<174464,174501,99>> :> 75748 @@ <<174464,174538,99>> :> 13798 @@ <<174464,174575,99>> :> 6241
       @@ <<174481,174464,99>> :> 35062 @@ <<174481,174501,99>> :> 67889 @@ <<174481,174538,99>> :> 49665
       @@ <<174481,174575,99>> :> 70791 @@ <<174498,174464,99>> :> 59222 @@ <<174498,174501,99>> :> 49391
       @@ <<174498,174538,99>> :> 53527 @@ <<174498,174575,99>> :> 32917 @@ <<174515,174464,99>> :> 79552
       @@ <<174515,174501,99>> :> 38898 @@ <<174515,174538,99>> :> 69330 @@ <<174515,174575,99>> :> 15544 )
  @@ (    <<177259,177259,99>> :> 85644 @@ <<177259,177296,99>> :> 11700 @@ <<177259,177333,99>> :> 65917
       @@ <<177259,177370,99>> :> 7342 @@ <<177276,177259,99>> :> 21396 @@ <<177276,177296,99>> :> 89059
       @@ <<177276,177333,99>> :> 2974 @@ <<177276,177370,99>> :> 16523 @@ <<177293,177259,99>> :> 85999
       @@ <<177293,177296,99>> :> 20813 @@ <<177293,177333,99>> :> 98513 @@ <<177293,177370,99>> :> 37983
       @@ <<177310,177259,99>> :> 75955 @@ <<177310,177296,99>> :> 23013 @@ <<177310,177333,99>> :> 23818
       @@ <<177310,177370,99>> :> 82685 @@ <<219477,219477,99>> :> 17484 @@ <<219477,219514,99>> :> 56743
       @@ <<219477,219551,99>> :> 13101 @@ <<219494,219477,99>> :> 82014 @@ <<219494,219514,99>> :> 92991
       @@ <<219494,219551,99>> :> 10836 @@ <<219511,219477,99>> :> 90910 @@ <<219511,219514,99>> :> 63459
       @@ <<219511,219551,99>> :> 815 @@ <<264490,264490,99>> :> 62050 @@ <<264490,264527,99>> :> 34357
       @@ <<264490,264564,99>> :> 99704 @@ <<264507,264490,99>> :> 68830 @@ <<264507,264527,99>> :> 1077
       @@ <<264507,264564,99>> :> 79787 @@ <<264524,264490,99>> :> 74040 @@ <<264524,264527,99>> :> 54235
       @@ <<264524,264564,99>> :> 23353 @@ <<267285,267285,99>> :> 62555 @@ <<267285,267322,99>> :> 41748
       @@ <<267285,267359,99>> :> 17814 @@ <<267285,267396,99>> :> 32881 @@ <<267302,267285,99>> :> 93335 )
  @@ (    <<267302,267322,99>> :> 94603 @@ <<267302,267359,99>> :> 63415 @@ <<267302,267396,99>> :> 26740
       @@ <<267319,267285,99>> :> 40065 @@ <<267319,267322,99>> :> 27203 @@ <<267319,267359,99>> :> 63431
       @@ <<267319,267396,99>> :> 99272 @@ <<267336,267285,99>> :> 39277 @@ <<267336,267322,99>> :> 159
       @@ <<267336,267359,99>> :> 27613 @@ <<267336,267396,99>> :> 61046 @@ <<270080,270080,99>> :> 68696
       @@ <<270080,270117,99>> :> 50747 @@ <<270080,270154,99>> :> 98037 @@ <<270080,270191,99>> :> 81690
       @@ <<270097,270080,99>> :> 44147 @@ <<270097,270117,99>> :> 61751 @@ <<270097,270154,99>> :> 65765
       @@ <<270097,270191,99>> :> 77872 @@ <<270114,270080,99>> :> 95165 @@ <<270114,270117,99>> :> 14510
       @@ <<270114,270154,99>> :> 8535 @@ <<270114,270191,99>> :> 58721 @@ <<270131,270080,99>> :> 38170
       @@ <<270131,270117,99>> :> 41893 @@ <<270131,270154,99>> :> 22613 @@ <<270131,270191,99>> :> 85555
       @@ <<288394,288394,99>> :> 74684 @@ <<288394,288431,99>> :> 31914 @@ <<288394,288468,99>> :> 75410
       @@ <<288411,288394,99>> :> 66961 @@ <<288411,288431,99>> :> 83348 @@ <<288411,288468,99>> :> 64946
       @@ <<288428,288394,99>> :> 28571 @@ <<288428,288431,99>> :> 68370 @@ <<288428,288468,99>> :> 82510
       @@ <<291189,291189,99>> :> 18095 @@ <<291189,291226,99>> :> 26879 @@ <<291189,291263,99>> :> 68757 )
  @@ (    <<291189,291300,99>> :> 2815 @@ <<291206,291189,99>> :> 44262 @@ <<291206,291226,99>> :> 74544
       @@ <<291206,291263,99>> :> 26933 @@ <<291206,291300,99>> :> 60672 @@ <<291223,291189,99>> :> 91704
       @@ <<291223,291226,99>> :> 16349 @@ <<291223,291263,99>> :> 69377 @@ <<291223,291300,99>> :> 2724
       @@ <<291240,291189,99>> :> 36733 @@ <<291240,291226,99>> :> 33257 @@ <<291240,291263,99>> :> 27106
       @@ <<291240,291300,99>> :> 83520 @@ <<333407,333407,99>> :> 20399 @@ <<333407,333444,99>> :> 44052
       @@ <<333407,333481,99>> :> 39051 @@ <<333424,333407,99>> :> 33704 @@ <<333424,333444,99>> :> 91930
       @@ <<333424,333481,99>> :> 66307 @@ <<333441,333407,99>> :> 21010 @@ <<333441,333444,99>> :> 92110
       @@ <<333441,333481,99>> :> 37433 @@ <<336202,336202,99>> :> 95618 @@ <<336202,336239,99>> :> 56983
       @@ <<336202,336276,99>> :> 71730 @@ <<336202,336313,99>> :> 62475 @@ <<336219,336202,99>> :> 25391
       @@ <<336219,336239,99>> :> 60768 @@ <<336219,336276,99>> :> 1632 @@ <<336219,336313,99>> :> 97243
       @@ <<336236,336202,99>> :> 88847 @@ <<336236,336239,99>> :> 69555 @@ <<336236,336276,99>> :> 19886
       @@ <<336236,336313,99>> :> 16419 @@ <<336253,336202,99>> :> 47732 @@ <<336253,336239,99>> :> 45561
       @@ <<336253,336276,99>> :> 9903 @@ <<336253,336313,99>> :> 45538 @@ <<338997,338997,99>> :> 30645 )
  @@ (    <<338997,339034,99>> :> 42116 @@ <<338997,339071,99>> :> 12054 @@ <<338997,339108,99>> :> 46189
       @@ <<339014,338997,99>> :> 39065 @@ <<339014,339034,99>> :> 13054 @@ <<339014,339071,99>> :> 42366
       @@ <<339014,339108,99>> :> 10617 @@ <<339031,338997,99>> :> 6560 @@ <<339031,339034,99>> :> 29675
       @@ <<339031,339071,99>> :> 26115 @@ <<339031,339108,99>> :> 57421 @@ <<339048,338997,99>> :> 9203
       @@ <<339048,339034,99>> :> 64703 @@ <<339048,339071,99>> :> 40863 @@ <<339048,339108,99>> :> 95783
       @@ <<357311,357311,99>> :> 92868 @@ <<357311,357348,99>> :> 40663 @@ <<357311,357385,99>> :> 84946
       @@ <<357311,357422,99>> :> 97754 @@ <<357328,357311,99>> :> 23612 @@ <<357328,357348,99>> :> 30285
       @@ <<357328,357385,99>> :> 41615 @@ <<357328,357422,99>> :> 85030 @@ <<357345,357311,99>> :> 69179
       @@ <<357345,357348,99>> :> 68925 @@ <<357345,357385,99>> :> 79861 @@ <<357345,357422,99>> :> 93883
       @@ <<357362,357311,99>> :> 82150 @@ <<357362,357348,99>> :> 47683 @@ <<357362,357385,99>> :> 82155
       @@ <<357362,357422,99>> :> 25678 @@ <<360106,360106,99>> :> 13889 @@ <<360106,360143,99>> :> 34105
       @@ <<360106,360180,99>> :> 51395 @@ <<360106,360217,99>> :> 5333 @@ <<360123,360106,99>> :> 14402
       @@ <<360123,360143,99>> :> 45227 @@ <<360123,360180,99>> :> 97312 @@ <<360123,360217,99>> :> 37753 )
  @@ (    <<360140,360106,99>> :> 69366 @@ <<360140,360143,99>> :> 24744 @@ <<360140,360180,99>> :> 57272
       @@ <<360140,360217,99>> :> 13158 @@ <<360157,360106,99>> :> 91002 @@ <<360157,360143,99>> :> 30377
       @@ <<360157,360180,99>> :> 35555 @@ <<360157,360217,99>> :> 34904 @@ <<362901,362901,99>> :> 83014
       @@ <<362901,362938,99>> :> 45329 @@ <<362901,362975,99>> :> 69519 @@ <<362901,363012,99>> :> 52174
       @@ <<362918,362901,99>> :> 8958 @@ <<362918,362938,99>> :> 31289 @@ <<362918,362975,99>> :> 1360
       @@ <<362918,363012,99>> :> 47254 @@ <<362935,362901,99>> :> 30319 @@ <<362935,362938,99>> :> 31176
       @@ <<362935,362975,99>> :> 77252 @@ <<362935,363012,99>> :> 27016 @@ <<362952,362901,99>> :> 10820
       @@ <<362952,362938,99>> :> 42252 @@ <<362952,362975,99>> :> 63793 @@ <<362952,363012,99>> :> 93938
       @@ <<381215,381215,99>> :> 82129 @@ <<381215,381252,99>> :> 2482 @@ <<381215,381289,99>> :> 5881
       @@ <<381215,381326,99>> :> 24393 @@ <<381232,381215,99>> :> 43645 @@ <<381232,381252,99>> :> 31187
       @@ <<381232,381289,99>> :> 86557 @@ <<381232,381326,99>> :> 55318 @@ <<381249,381215,99>> :> 11274
       @@ <<381249,381252,99>> :> 1076 @@ <<381249,381289,99>> :> 48539 @@ <<381249,381326,99>> :> 28882
       @@ <<381266,381215,99>> :> 26492 @@ <<381266,381252,99>> :> 87930 @@ <<381266,381289,99>> :> 68078 )
  @@ (    <<381266,381326,99>> :> 57516 @@ <<384010,384010,99>> :> 4993 @@ <<384010,384047,99>> :> 74547
       @@ <<384010,384084,99>> :> 35709 @@ <<384010,384121,99>> :> 20397 @@ <<384027,384010,99>> :> 10836
       @@ <<384027,384047,99>> :> 51071 @@ <<384027,384084,99>> :> 61082 @@ <<384027,384121,99>> :> 8552
       @@ <<384044,384010,99>> :> 37837 @@ <<384044,384047,99>> :> 53409 @@ <<384044,384084,99>> :> 36348
       @@ <<384044,384121,99>> :> 44637 @@ <<384061,384010,99>> :> 45825 @@ <<384061,384047,99>> :> 8862
       @@ <<384061,384084,99>> :> 73938 @@ <<384061,384121,99>> :> 29035 @@ <<405119,405119,99>> :> 1311
       @@ <<405119,405156,99>> :> 44947 @@ <<405119,405193,99>> :> 90628 @@ <<405119,405230,99>> :> 26989
       @@ <<405136,405119,99>> :> 40449 @@ <<405136,405156,99>> :> 20983 @@ <<405136,405193,99>> :> 24199
       @@ <<405136,405230,99>> :> 16593 @@ <<405153,405119,99>> :> 23536 @@ <<405153,405156,99>> :> 2632
       @@ <<405153,405193,99>> :> 18657 @@ <<405153,405230,99>> :> 99204 @@ <<405170,405119,99>> :> 89385
       @@ <<405170,405156,99>> :> 13746 @@ <<405170,405193,99>> :> 13352 @@ <<405170,405230,99>> :> 22937
       @@ <<407914,407914,99>> :> 84752 @@ <<407914,407951,99>> :> 68034 @@ <<407914,407988,99>> :> 13946
       @@ <<407914,408025,99>> :> 55237 @@ <<407931,407914,99>> :> 76512 @@ <<407931,407951,99>> :> 72144 )
  @@ (    <<407931,407988,99>> :> 9813 @@ <<407931,408025,99>> :> 29734 @@ <<407948,407914,99>> :> 84927
       @@ <<407948,407951,99>> :> 26520 @@ <<407948,407988,99>> :> 17748 @@ <<407948,408025,99>> :> 34431
       @@ <<407965,407914,99>> :> 13287 @@ <<407965,407951,99>> :> 63159 @@ <<407965,407988,99>> :> 78837
       @@ <<407965,408025,99>> :> 43550 @@ <<426228,426228,99>> :> 58328 @@ <<426228,426265,99>> :> 31827
       @@ <<426228,426302,99>> :> 43129 @@ <<426245,426228,99>> :> 939 @@ <<426245,426265,99>> :> 64263
       @@ <<426245,426302,99>> :> 58793 @@ <<426262,426228,99>> :> 26269 @@ <<426262,426265,99>> :> 94786
       @@ <<426262,426302,99>> :> 48157 @@ <<431818,431818,99>> :> 96593 @@ <<431818,431855,99>> :> 81396
       @@ <<431818,431892,99>> :> 53864 @@ <<431818,431929,99>> :> 40912 @@ <<431835,431818,99>> :> 85551
       @@ <<431835,431855,99>> :> 308 @@ <<431835,431892,99>> :> 81005 @@ <<431835,431929,99>> :> 99458
       @@ <<431852,431818,99>> :> 9335 @@ <<431852,431855,99>> :> 96032 @@ <<431852,431892,99>> :> 79421
       @@ <<431852,431929,99>> :> 16735 @@ <<431869,431818,99>> :> 79867 @@ <<431869,431855,99>> :> 78461
       @@ <<431869,431892,99>> :> 98136 @@ <<431869,431929,99>> :> 66815 @@ <<450132,450132,99>> :> 39715
       @@ <<450132,450169,99>> :> 85370 @@ <<450132,450206,99>> :> 93766 @@ <<450132,450243,99>> :> 59318 )
  @@ (    <<450149,450132,99>> :> 77605 @@ <<450149,450169,99>> :> 67226 @@ <<450149,450206,99>> :> 95519
       @@ <<450149,450243,99>> :> 66316 @@ <<450166,450132,99>> :> 33577 @@ <<450166,450169,99>> :> 9223
       @@ <<450166,450206,99>> :> 63805 @@ <<450166,450243,99>> :> 59299 @@ <<450183,450132,99>> :> 88252
       @@ <<450183,450169,99>> :> 59843 @@ <<450183,450206,99>> :> 76313 @@ <<450183,450243,99>> :> 66233
       @@ <<452927,452927,99>> :> 82490 @@ <<452927,452964,99>> :> 22489 @@ <<452927,453001,99>> :> 61866
       @@ <<452927,453038,99>> :> 36086 @@ <<452944,452927,99>> :> 64396 @@ <<452944,452964,99>> :> 63315
       @@ <<452944,453001,99>> :> 72692 @@ <<452944,453038,99>> :> 63187 @@ <<452961,452927,99>> :> 22839
       @@ <<452961,452964,99>> :> 43650 @@ <<452961,453001,99>> :> 57310 @@ <<452961,453038,99>> :> 64398
       @@ <<452978,452927,99>> :> 21330 @@ <<452978,452964,99>> :> 91862 @@ <<452978,453001,99>> :> 46734
       @@ <<452978,453038,99>> :> 72492 @@ <<476831,476831,99>> :> 16142 @@ <<476831,476868,99>> :> 9289
       @@ <<476831,476905,99>> :> 88231 @@ <<476831,476942,99>> :> 91811 @@ <<476848,476831,99>> :> 17301
       @@ <<476848,476868,99>> :> 11204 @@ <<476848,476905,99>> :> 12194 @@ <<476848,476942,99>> :> 34659
       @@ <<476865,476831,99>> :> 91514 @@ <<476865,476868,99>> :> 92976 @@ <<476865,476905,99>> :> 26543 )
  @@ (    <<476865,476942,99>> :> 80329 @@ <<476882,476831,99>> :> 42112 @@ <<476882,476868,99>> :> 85255
       @@ <<476882,476905,99>> :> 51108 @@ <<476882,476942,99>> :> 28068 @@ <<497940,497940,99>> :> 86524
       @@ <<497940,497977,99>> :> 80545 @@ <<497940,498014,99>> :> 27242 @@ <<497940,498051,99>> :> 6919
       @@ <<497957,497940,99>> :> 76390 @@ <<497957,497977,99>> :> 76386 @@ <<497957,498014,99>> :> 44123
       @@ <<497957,498051,99>> :> 18069 @@ <<497974,497940,99>> :> 861 @@ <<497974,497977,99>> :> 28230
       @@ <<497974,498014,99>> :> 39421 @@ <<497974,498051,99>> :> 45010 @@ <<497991,497940,99>> :> 52215
       @@ <<497991,497977,99>> :> 21774 @@ <<497991,498014,99>> :> 36786 @@ <<497991,498051,99>> :> 99509
       @@ <<519049,519049,99>> :> 99596 @@ <<519049,519086,99>> :> 93561 @@ <<519049,519123,99>> :> 19983
       @@ <<519066,519049,99>> :> 44425 @@ <<519066,519086,99>> :> 86763 @@ <<519066,519123,99>> :> 80246
       @@ <<519083,519049,99>> :> 31748 @@ <<519083,519086,99>> :> 49124 @@ <<519083,519123,99>> :> 96232
       @@ <<521844,521844,99>> :> 45148 @@ <<521844,521881,99>> :> 60942 @@ <<521844,521918,99>> :> 71684
       @@ <<521844,521955,99>> :> 2744 @@ <<521861,521844,99>> :> 55239 @@ <<521861,521881,99>> :> 43649
       @@ <<521861,521918,99>> :> 38142 @@ <<521861,521955,99>> :> 37469 @@ <<521878,521844,99>> :> 56217 )
  @@ (    <<521878,521881,99>> :> 8035 @@ <<521878,521918,99>> :> 87565 @@ <<521878,521955,99>> :> 31688
       @@ <<521895,521844,99>> :> 53855 @@ <<521895,521881,99>> :> 63984 @@ <<521895,521918,99>> :> 90861
       @@ <<521895,521955,99>> :> 53201 @@ <<542953,542953,99>> :> 85484 @@ <<542953,542990,99>> :> 13693
       @@ <<542953,543027,99>> :> 93027 @@ <<542953,543064,99>> :> 92613 @@ <<542970,542953,99>> :> 52066
       @@ <<542970,542990,99>> :> 40782 @@ <<542970,543027,99>> :> 72459 @@ <<542970,543064,99>> :> 72429
       @@ <<542987,542953,99>> :> 59631 @@ <<542987,542990,99>> :> 87111 @@ <<542987,543027,99>> :> 62449
       @@ <<542987,543064,99>> :> 34446 @@ <<543004,542953,99>> :> 40882 @@ <<543004,542990,99>> :> 13507
       @@ <<543004,543027,99>> :> 35351 @@ <<543004,543064,99>> :> 96978 @@ <<566857,566857,99>> :> 68696
       @@ <<566857,566894,99>> :> 53153 @@ <<566857,566931,99>> :> 80347 @@ <<566857,566968,99>> :> 42034
       @@ <<566874,566857,99>> :> 24957 @@ <<566874,566894,99>> :> 13066 @@ <<566874,566931,99>> :> 57630
       @@ <<566874,566968,99>> :> 73845 @@ <<566891,566857,99>> :> 46158 @@ <<566891,566894,99>> :> 18282
       @@ <<566891,566931,99>> :> 870 @@ <<566891,566968,99>> :> 14148 @@ <<566908,566857,99>> :> 43670
       @@ <<566908,566894,99>> :> 85621 @@ <<566908,566931,99>> :> 77138 @@ <<566908,566968,99>> :> 27713 )
  @@ (    <<590761,590761,99>> :> 60084 @@ <<590761,590798,99>> :> 83823 @@ <<590761,590835,99>> :> 77698
       @@ <<590778,590761,99>> :> 41604 @@ <<590778,590798,99>> :> 78776 @@ <<590778,590835,99>> :> 70701
       @@ <<590795,590761,99>> :> 41817 @@ <<590795,590798,99>> :> 44729 @@ <<590795,590835,99>> :> 80505
       @@ <<611870,611870,99>> :> 61990 @@ <<611870,611907,99>> :> 1230 @@ <<611870,611944,99>> :> 51999
       @@ <<611887,611870,99>> :> 38650 @@ <<611887,611907,99>> :> 22922 @@ <<611887,611944,99>> :> 53476
       @@ <<611904,611870,99>> :> 61403 @@ <<611904,611907,99>> :> 6780 @@ <<611904,611944,99>> :> 54704
       @@ <<614665,614665,99>> :> 39749 @@ <<614665,614702,99>> :> 56422 @@ <<614665,614739,99>> :> 90232
       @@ <<614682,614665,99>> :> 90479 @@ <<614682,614702,99>> :> 65519 @@ <<614682,614739,99>> :> 95994
       @@ <<614699,614665,99>> :> 97186 @@ <<614699,614702,99>> :> 93804 @@ <<614699,614739,99>> :> 4022
       @@ <<635774,635774,99>> :> 87261 @@ <<635774,635811,99>> :> 82404 @@ <<635774,635848,99>> :> 40581
       @@ <<635774,635885,99>> :> 9291 @@ <<635791,635774,99>> :> 73015 @@ <<635791,635811,99>> :> 66459
       @@ <<635791,635848,99>> :> 11319 @@ <<635791,635885,99>> :> 22813 @@ <<635808,635774,99>> :> 27795
       @@ <<635808,635811,99>> :> 6647 @@ <<635808,635848,99>> :> 93168 @@ <<635808,635885,99>> :> 48567 )
  @@ (    <<635825,635774,99>> :> 13083 @@ <<635825,635811,99>> :> 10173 @@ <<635825,635848,99>> :> 3392
       @@ <<635825,635885,99>> :> 93841 @@ <<659678,659678,99>> :> 77160 @@ <<659678,659715,99>> :> 2025
       @@ <<659678,659752,99>> :> 43047 @@ <<659695,659678,99>> :> 62962 @@ <<659695,659715,99>> :> 29400
       @@ <<659695,659752,99>> :> 69657 @@ <<659712,659678,99>> :> 70810 @@ <<659712,659715,99>> :> 28790
       @@ <<659712,659752,99>> :> 34558 @@ <<683582,683582,99>> :> 21847 @@ <<683582,683619,99>> :> 82382
       @@ <<683582,683656,99>> :> 59274 @@ <<683582,683693,99>> :> 53530 @@ <<683599,683582,99>> :> 31890
       @@ <<683599,683619,99>> :> 16481 @@ <<683599,683656,99>> :> 32509 @@ <<683599,683693,99>> :> 80802
       @@ <<683616,683582,99>> :> 70994 @@ <<683616,683619,99>> :> 59215 @@ <<683616,683656,99>> :> 6976
       @@ <<683616,683693,99>> :> 6479 @@ <<683633,683582,99>> :> 35346 @@ <<683633,683619,99>> :> 15910
       @@ <<683633,683656,99>> :> 27079 @@ <<683633,683693,99>> :> 564 @@ <<707486,707486,99>> :> 86332
       @@ <<707486,707523,99>> :> 62159 @@ <<707486,707560,99>> :> 25460 @@ <<707503,707486,99>> :> 28671
       @@ <<707503,707523,99>> :> 11314 @@ <<707503,707560,99>> :> 35069 @@ <<707520,707486,99>> :> 64642
       @@ <<707520,707523,99>> :> 18618 @@ <<707520,707560,99>> :> 31812 @@ <<728595,728595,99>> :> 5566 )
  @@ (    <<728595,728632,99>> :> 60657 @@ <<728595,728669,99>> :> 29961 @@ <<728595,728706,99>> :> 72077
       @@ <<728612,728595,99>> :> 75969 @@ <<728612,728632,99>> :> 37233 @@ <<728612,728669,99>> :> 98536
       @@ <<728612,728706,99>> :> 28708 @@ <<728629,728595,99>> :> 34237 @@ <<728629,728632,99>> :> 64857
       @@ <<728629,728669,99>> :> 63166 @@ <<728629,728706,99>> :> 25783 @@ <<728646,728595,99>> :> 16550
       @@ <<728646,728632,99>> :> 76204 @@ <<728646,728669,99>> :> 52839 @@ <<728646,728706,99>> :> 31554
       @@ <<776403,776403,99>> :> 18173 @@ <<776403,776440,99>> :> 93235 @@ <<776403,776477,99>> :> 34721
       @@ <<776420,776403,99>> :> 78149 @@ <<776420,776440,99>> :> 6155 @@ <<776420,776477,99>> :> 87637
       @@ <<776437,776403,99>> :> 22341 @@ <<776437,776440,99>> :> 89639 @@ <<776437,776477,99>> :> 87113
       @@ <<797512,797512,99>> :> 86597 @@ <<797512,797549,99>> :> 62188 @@ <<797512,797586,99>> :> 43100
       @@ <<797512,797623,99>> :> 75023 @@ <<797529,797512,99>> :> 48884 @@ <<797529,797549,99>> :> 28771
       @@ <<797529,797586,99>> :> 10322 @@ <<797529,797623,99>> :> 97452 @@ <<797546,797512,99>> :> 49387
       @@ <<797546,797549,99>> :> 10441 @@ <<797546,797586,99>> :> 48861 @@ <<797546,797623,99>> :> 17863
       @@ <<797563,797512,99>> :> 10731 @@ <<797563,797549,99>> :> 96923 @@ <<797563,797586,99>> :> 75224 )
  @@ (    <<797563,797623,99>> :> 28024 @@ <<845320,845320,99>> :> 11879 @@ <<845320,845357,99>> :> 97567
       @@ <<845320,845394,99>> :> 57943 @@ <<845320,845431,99>> :> 98653 @@ <<845337,845320,99>> :> 98168
       @@ <<845337,845357,99>> :> 18266 @@ <<845337,845394,99>> :> 29267 @@ <<845337,845431,99>> :> 4345
       @@ <<845354,845320,99>> :> 12162 @@ <<845354,845357,99>> :> 67777 @@ <<845354,845394,99>> :> 54203
       @@ <<845354,845431,99>> :> 10581 @@ <<845371,845320,99>> :> 55989 @@ <<845371,845357,99>> :> 10453
       @@ <<845371,845394,99>> :> 40514 @@ <<845371,845431,99>> :> 95159 @@ <<890333,890333,99>> :> 34993
       @@ <<890333,890370,99>> :> 99110 @@ <<890333,890407,99>> :> 99975 @@ <<890350,890333,99>> :> 30531
       @@ <<890350,890370,99>> :> 17888 @@ <<890350,890407,99>> :> 62542 @@ <<890367,890333,99>> :> 80996
       @@ <<890367,890370,99>> :> 28881 @@ <<890367,890407,99>> :> 90270 @@ <<30,78,1640>> :> 21756
       @@ <<30,79,1640>> :> 59899 @@ <<30,80,1640>> :> 14314 @@ <<30,81,1640>> :> 4102
       @@ <<30,82,1640>> :> 764 @@ <<30,83,1640>> :> 10839 @@ <<30,84,1640>> :> 95626
       @@ <<30,85,1640>> :> 18227 @@ <<30,86,1640>> :> 6614 @@ <<30,87,1640>> :> 78924
       @@ <<30,88,1640>> :> 70203 @@ <<30,89,1640>> :> 12785 @@ <<30,90,1640>> :> 11930 )
  @@ (    <<30,91,1640>> :> 60824 @@ <<30,92,1640>> :> 32978 @@ <<30,93,1640>> :> 14296
       @@ <<30,94,1640>> :> 86734 @@ <<30,95,1640>> :> 88002 @@ <<30,96,1640>> :> 529
       @@ <<31,78,1640>> :> 87943 @@ <<31,79,1640>> :> 91800 @@ <<31,80,1640>> :> 45541
       @@ <<31,81,1640>> :> 4770 @@ <<31,82,1640>> :> 893 @@ <<31,83,1640>> :> 71018
       @@ <<31,84,1640>> :> 70609 @@ <<31,85,1640>> :> 94036 @@ <<31,86,1640>> :> 98847
       @@ <<31,87,1640>> :> 85274 @@ <<31,88,1640>> :> 35349 @@ <<31,89,1640>> :> 22323
       @@ <<31,90,1640>> :> 95607 @@ <<31,91,1640>> :> 19651 @@ <<31,92,1640>> :> 34276
       @@ <<31,93,1640>> :> 59448 @@ <<31,94,1640>> :> 4288 @@ <<31,95,1640>> :> 98433
       @@ <<31,96,1640>> :> 28248 @@ <<32,78,1640>> :> 15081 @@ <<32,79,1640>> :> 6398
       @@ <<32,80,1640>> :> 58230 @@ <<32,81,1640>> :> 96421 @@ <<32,82,1640>> :> 93237
       @@ <<32,83,1640>> :> 56835 @@ <<32,84,1640>> :> 69640 @@ <<32,85,1640>> :> 2411
       @@ <<32,86,1640>> :> 41519 @@ <<32,87,1640>> :> 60074 @@ <<32,88,1640>> :> 79812
       @@ <<32,89,1640>> :> 30127 @@ <<32,90,1640>> :> 21230 @@ <<32,91,1640>> :> 56435 )
  @@ (    <<32,92,1640>> :> 87124 @@ <<32,93,1640>> :> 914 @@ <<32,94,1640>> :> 76575
       @@ <<32,95,1640>> :> 94955 @@ <<32,96,1640>> :> 77989 @@ <<33,78,1640>> :> 4949
       @@ <<33,79,1640>> :> 78339 @@ <<33,80,1640>> :> 41919 @@ <<33,81,1640>> :> 36651
       @@ <<33,82,1640>> :> 84216 @@ <<33,83,1640>> :> 9099 @@ <<33,84,1640>> :> 69279
       @@ <<33,85,1640>> :> 5478 @@ <<33,86,1640>> :> 99319 @@ <<33,87,1640>> :> 60620
       @@ <<33,88,1640>> :> 15308 @@ <<33,89,1640>> :> 71404 @@ <<33,90,1640>> :> 93913
       @@ <<33,91,1640>> :> 86605 @@ <<33,92,1640>> :> 7109 @@ <<33,93,1640>> :> 20024
       @@ <<33,94,1640>> :> 62128 @@ <<33,95,1640>> :> 68740 @@ <<33,96,1640>> :> 76879
       @@ <<34,78,1640>> :> 59993 @@ <<34,79,1640>> :> 64020 @@ <<34,80,1640>> :> 21640
       @@ <<34,81,1640>> :> 1978 @@ <<34,82,1640>> :> 98853 @@ <<34,83,1640>> :> 767
       @@ <<34,84,1640>> :> 80909 @@ <<34,85,1640>> :> 79538 @@ <<34,86,1640>> :> 9602
       @@ <<34,87,1640>> :> 14627 @@ <<34,88,1640>> :> 30563 @@ <<34,89,1640>> :> 96299
       @@ <<34,90,1640>> :> 46440 @@ <<34,91,1640>> :> 99385 @@ <<34,92,1640>> :> 21162 )
  @@ (    <<34,93,1640>> :> 40680 @@ <<34,94,1640>> :> 41164 @@ <<34,95,1640>> :> 72374
       @@ <<34,96,1640>> :> 98907 @@ <<35,78,1640>> :> 33931 @@ <<35,79,1640>> :> 81112
       @@ <<35,80,1640>> :> 37495 @@ <<35,81,1640>> :> 15257 @@ <<35,82,1640>> :> 19870
       @@ <<35,83,1640>> :> 23827 @@ <<35,84,1640>> :> 6760 @@ <<35,85,1640>> :> 66928
       @@ <<35,86,1640>> :> 78327 @@ <<35,87,1640>> :> 84932 @@ <<35,88,1640>> :> 98901
       @@ <<35,89,1640>> :> 20389 @@ <<35,90,1640>> :> 39466 @@ <<35,91,1640>> :> 28939
       @@ <<35,92,1640>> :> 65241 @@ <<35,93,1640>> :> 73242 @@ <<35,94,1640>> :> 76829
       @@ <<35,95,1640>> :> 10151 @@ <<35,96,1640>> :> 95810 @@ <<36,78,1640>> :> 60996
       @@ <<36,79,1640>> :> 74917 @@ <<36,80,1640>> :> 55725 @@ <<36,81,1640>> :> 57406
       @@ <<36,82,1640>> :> 50653 @@ <<36,83,1640>> :> 32782 @@ <<36,84,1640>> :> 90853
       @@ <<36,85,1640>> :> 8823 @@ <<36,86,1640>> :> 48886 @@ <<36,87,1640>> :> 2171
       @@ <<36,88,1640>> :> 77089 @@ <<36,89,1640>> :> 56471 @@ <<36,90,1640>> :> 56439
       @@ <<36,91,1640>> :> 74467 @@ <<36,92,1640>> :> 64995 @@ <<36,93,1640>> :> 63571 )
  @@ (    <<36,94,1640>> :> 90323 @@ <<36,95,1640>> :> 98782 @@ <<36,96,1640>> :> 99299
       @@ <<37,78,1640>> :> 63897 @@ <<37,79,1640>> :> 21233 @@ <<37,80,1640>> :> 95083
       @@ <<37,81,1640>> :> 92383 @@ <<37,82,1640>> :> 62275 @@ <<37,83,1640>> :> 5188
       @@ <<37,84,1640>> :> 78510 @@ <<37,85,1640>> :> 66493 @@ <<37,86,1640>> :> 67683
       @@ <<37,87,1640>> :> 88997 @@ <<37,88,1640>> :> 16227 @@ <<37,89,1640>> :> 94105
       @@ <<37,90,1640>> :> 29373 @@ <<37,91,1640>> :> 9077 @@ <<37,92,1640>> :> 62959
       @@ <<37,93,1640>> :> 80553 @@ <<37,94,1640>> :> 67825 @@ <<37,95,1640>> :> 72417
       @@ <<37,96,1640>> :> 92352 @@ <<38,78,1640>> :> 78711 @@ <<38,79,1640>> :> 60908
       @@ <<38,80,1640>> :> 65921 @@ <<38,81,1640>> :> 64383 @@ <<38,82,1640>> :> 53441
       @@ <<38,83,1640>> :> 30611 @@ <<38,84,1640>> :> 60618 @@ <<38,85,1640>> :> 3583
       @@ <<38,86,1640>> :> 28693 @@ <<38,87,1640>> :> 47409 @@ <<38,88,1640>> :> 63082
       @@ <<38,89,1640>> :> 97098 @@ <<38,90,1640>> :> 23345 @@ <<38,91,1640>> :> 91429
       @@ <<38,92,1640>> :> 12917 @@ <<38,93,1640>> :> 67057 @@ <<38,94,1640>> :> 63283 )
  @@ (    <<38,95,1640>> :> 99193 @@ <<38,96,1640>> :> 85823 @@ <<39,78,1640>> :> 12784
       @@ <<39,79,1640>> :> 69359 @@ <<39,80,1640>> :> 24890 @@ <<39,81,1640>> :> 77470
       @@ <<39,82,1640>> :> 60023 @@ <<39,83,1640>> :> 96010 @@ <<39,84,1640>> :> 61516
       @@ <<39,85,1640>> :> 31131 @@ <<39,86,1640>> :> 97407 @@ <<39,87,1640>> :> 51527
       @@ <<39,88,1640>> :> 33614 @@ <<39,89,1640>> :> 53274 @@ <<39,90,1640>> :> 14361
       @@ <<39,91,1640>> :> 57872 @@ <<39,92,1640>> :> 36544 @@ <<39,93,1640>> :> 54624
       @@ <<39,94,1640>> :> 5078 @@ <<39,95,1640>> :> 11208 @@ <<39,96,1640>> :> 91710
       @@ <<40,78,1640>> :> 26362 @@ <<40,79,1640>> :> 48159 @@ <<40,80,1640>> :> 26569
       @@ <<40,81,1640>> :> 18616 @@ <<40,82,1640>> :> 11319 @@ <<40,83,1640>> :> 69830
       @@ <<40,84,1640>> :> 5171 @@ <<40,85,1640>> :> 37701 @@ <<40,86,1640>> :> 70174
       @@ <<40,87,1640>> :> 22935 @@ <<40,88,1640>> :> 38694 @@ <<40,89,1640>> :> 38762
       @@ <<40,90,1640>> :> 1988 @@ <<40,91,1640>> :> 99016 @@ <<40,92,1640>> :> 80358
       @@ <<40,93,1640>> :> 7747 @@ <<40,94,1640>> :> 50249 @@ <<40,95,1640>> :> 50062 )
  @@ (    <<40,96,1640>> :> 65295 @@ <<41,78,1640>> :> 74232 @@ <<41,79,1640>> :> 3545
       @@ <<41,80,1640>> :> 89308 @@ <<41,81,1640>> :> 80012 @@ <<41,82,1640>> :> 82968
       @@ <<41,83,1640>> :> 7147 @@ <<41,84,1640>> :> 53306 @@ <<41,85,1640>> :> 2835
       @@ <<41,86,1640>> :> 72433 @@ <<41,87,1640>> :> 77796 @@ <<41,88,1640>> :> 19823
       @@ <<41,89,1640>> :> 75843 @@ <<41,90,1640>> :> 22390 @@ <<41,91,1640>> :> 11024
       @@ <<41,92,1640>> :> 45256 @@ <<41,93,1640>> :> 26276 @@ <<41,94,1640>> :> 53562
       @@ <<41,95,1640>> :> 42676 @@ <<41,96,1640>> :> 82078 @@ <<42,78,1640>> :> 55443
       @@ <<42,79,1640>> :> 2536 @@ <<42,80,1640>> :> 43566 @@ <<42,81,1640>> :> 95517
       @@ <<42,82,1640>> :> 17151 @@ <<42,83,1640>> :> 30728 @@ <<42,84,1640>> :> 76814
       @@ <<42,85,1640>> :> 11996 @@ <<42,86,1640>> :> 60589 @@ <<42,87,1640>> :> 40278
       @@ <<42,88,1640>> :> 99380 @@ <<42,89,1640>> :> 13168 @@ <<42,90,1640>> :> 65490
       @@ <<42,91,1640>> :> 29753 @@ <<42,92,1640>> :> 77749 @@ <<42,93,1640>> :> 67017
       @@ <<42,94,1640>> :> 62885 @@ <<42,95,1640>> :> 9015 @@ <<42,96,1640>> :> 72142 )
  @@ (    <<43,78,1640>> :> 30511 @@ <<43,79,1640>> :> 51768 @@ <<43,80,1640>> :> 18515
       @@ <<43,81,1640>> :> 54033 @@ <<43,82,1640>> :> 51283 @@ <<43,83,1640>> :> 29102
       @@ <<43,84,1640>> :> 4138 @@ <<43,85,1640>> :> 21364 @@ <<43,86,1640>> :> 54230
       @@ <<43,87,1640>> :> 97689 @@ <<43,88,1640>> :> 94101 @@ <<43,89,1640>> :> 95729
       @@ <<43,90,1640>> :> 11597 @@ <<43,91,1640>> :> 72493 @@ <<43,92,1640>> :> 56629
       @@ <<43,93,1640>> :> 91082 @@ <<43,94,1640>> :> 96268 @@ <<43,95,1640>> :> 15332
       @@ <<43,96,1640>> :> 92769 @@ <<44,78,1640>> :> 91802 @@ <<44,79,1640>> :> 87605
       @@ <<44,80,1640>> :> 29119 @@ <<44,81,1640>> :> 81404 @@ <<44,82,1640>> :> 41657
       @@ <<44,83,1640>> :> 2495 @@ <<44,84,1640>> :> 56101 @@ <<44,85,1640>> :> 26194
       @@ <<44,86,1640>> :> 25566 @@ <<44,87,1640>> :> 80912 @@ <<44,88,1640>> :> 61513
       @@ <<44,89,1640>> :> 61285 @@ <<44,90,1640>> :> 33789 @@ <<44,91,1640>> :> 94394
       @@ <<44,92,1640>> :> 39604 @@ <<44,93,1640>> :> 58505 @@ <<44,94,1640>> :> 29015
       @@ <<44,95,1640>> :> 4884 @@ <<44,96,1640>> :> 67071 @@ <<45,78,1640>> :> 92313 )
  @@ (    <<45,79,1640>> :> 61079 @@ <<45,80,1640>> :> 81351 @@ <<45,81,1640>> :> 52587
       @@ <<45,82,1640>> :> 67377 @@ <<45,83,1640>> :> 14134 @@ <<45,84,1640>> :> 79700
       @@ <<45,85,1640>> :> 35948 @@ <<45,86,1640>> :> 60420 @@ <<45,87,1640>> :> 51995
       @@ <<45,88,1640>> :> 79808 @@ <<45,89,1640>> :> 71763 @@ <<45,90,1640>> :> 54752
       @@ <<45,91,1640>> :> 87255 @@ <<45,92,1640>> :> 46808 @@ <<45,93,1640>> :> 20300
       @@ <<45,94,1640>> :> 10949 @@ <<45,95,1640>> :> 77507 @@ <<45,96,1640>> :> 74327
       @@ <<46,78,1640>> :> 12278 @@ <<46,79,1640>> :> 18687 @@ <<46,80,1640>> :> 57559
       @@ <<46,81,1640>> :> 76523 @@ <<46,82,1640>> :> 89274 @@ <<46,83,1640>> :> 30059
       @@ <<46,84,1640>> :> 30166 @@ <<46,85,1640>> :> 31036 @@ <<46,86,1640>> :> 65883
       @@ <<46,87,1640>> :> 16136 @@ <<46,88,1640>> :> 99316 @@ <<46,89,1640>> :> 68273
       @@ <<46,90,1640>> :> 23342 @@ <<46,91,1640>> :> 5367 @@ <<46,92,1640>> :> 68509
       @@ <<46,93,1640>> :> 25808 @@ <<46,94,1640>> :> 30739 @@ <<46,95,1640>> :> 62610
       @@ <<46,96,1640>> :> 387 @@ <<47,78,1640>> :> 73261 @@ <<47,79,1640>> :> 3211 )
  @@ (    <<47,80,1640>> :> 53561 @@ <<47,81,1640>> :> 37292 @@ <<47,82,1640>> :> 22213
       @@ <<47,83,1640>> :> 52012 @@ <<47,84,1640>> :> 44989 @@ <<47,85,1640>> :> 76139
       @@ <<47,86,1640>> :> 42020 @@ <<47,87,1640>> :> 71992 @@ <<47,88,1640>> :> 43196
       @@ <<47,89,1640>> :> 32511 @@ <<47,90,1640>> :> 37728 @@ <<47,91,1640>> :> 70886
       @@ <<47,92,1640>> :> 77231 @@ <<47,93,1640>> :> 72285 @@ <<47,94,1640>> :> 95923
       @@ <<47,95,1640>> :> 77843 @@ <<47,96,1640>> :> 21081 @@ <<48,78,1640>> :> 20748
       @@ <<48,79,1640>> :> 42157 @@ <<48,80,1640>> :> 14037 @@ <<48,81,1640>> :> 4
       @@ <<48,82,1640>> :> 61422 @@ <<48,83,1640>> :> 64009 @@ <<48,84,1640>> :> 53368
       @@ <<48,85,1640>> :> 77635 @@ <<48,86,1640>> :> 37963 @@ <<48,87,1640>> :> 69760
       @@ <<48,88,1640>> :> 36058 @@ <<48,89,1640>> :> 82871 @@ <<48,90,1640>> :> 59098
       @@ <<48,91,1640>> :> 27487 @@ <<48,92,1640>> :> 70928 @@ <<48,93,1640>> :> 37440
       @@ <<48,94,1640>> :> 27142 @@ <<48,95,1640>> :> 66788 @@ <<48,96,1640>> :> 69296
       @@ <<88,206,2044>> :> 36021 @@ <<89,201,2044>> :> 67850 @@ <<89,202,2044>> :> 91773 )
  @@ (    <<89,208,2044>> :> 78344 @@ <<90,202,2044>> :> 78789 @@ <<90,209,2044>> :> 37583
       @@ <<91,200,2044>> :> 37261 @@ <<91,201,2044>> :> 23660 @@ <<92,200,2044>> :> 63063
       @@ <<92,202,2044>> :> 46484 @@ <<92,208,2044>> :> 73231 @@ <<93,200,2044>> :> 27277
       @@ <<95,205,2044>> :> 38968 @@ <<96,201,2044>> :> 28375 @@ <<96,205,2044>> :> 21614
       @@ <<96,206,2044>> :> 18643 @@ <<96,209,2044>> :> 13260 @@ <<102,229,2145>> :> 87218
       @@ <<102,230,2145>> :> 55030 @@ <<102,236,2145>> :> 29338 @@ <<103,229,2145>> :> 29782
       @@ <<103,237,2145>> :> 54077 @@ <<103,238,2145>> :> 35296 @@ <<104,236,2145>> :> 2971
       @@ <<104,237,2145>> :> 62459 @@ <<104,238,2145>> :> 26775 @@ <<105,229,2145>> :> 43868
       @@ <<106,229,2145>> :> 32314 @@ <<106,233,2145>> :> 24671 @@ <<106,235,2145>> :> 30523
       @@ <<107,232,2145>> :> 96747 @@ <<107,233,2145>> :> 33973 @@ <<108,233,2145>> :> 26256
       @@ <<109,230,2145>> :> 6958 @@ <<110,229,2145>> :> 53834 @@ <<114,261,2246>> :> 37244
       @@ <<114,263,2246>> :> 55943 @@ <<115,262,2246>> :> 93186 @@ <<115,266,2246>> :> 42770
       @@ <<116,259,2246>> :> 86508 @@ <<116,261,2246>> :> 11223 @@ <<116,264,2246>> :> 32889 )
  @@ (    <<116,267,2246>> :> 67485 @@ <<117,259,2246>> :> 2485 @@ <<117,267,2246>> :> 50494
       @@ <<118,261,2246>> :> 21274 @@ <<119,258,2246>> :> 61936 @@ <<120,264,2246>> :> 65413
       @@ <<120,266,2246>> :> 778 @@ <<121,261,2246>> :> 66378 @@ <<121,265,2246>> :> 26797
       @@ <<121,266,2246>> :> 28892 @@ <<121,267,2246>> :> 98632 @@ <<123,263,2246>> :> 87481
       @@ <<123,264,2246>> :> 49869 @@ <<128,291,2347>> :> 92338 @@ <<129,289,2347>> :> 32968
       @@ <<129,293,2347>> :> 16824 @@ <<131,289,2347>> :> 50140 @@ <<131,294,2347>> :> 37534
       @@ <<132,287,2347>> :> 92206 @@ <<132,291,2347>> :> 923 @@ <<132,293,2347>> :> 2423
       @@ <<133,294,2347>> :> 40685 @@ <<134,290,2347>> :> 92908 @@ <<134,291,2347>> :> 98088
       @@ <<135,288,2347>> :> 76782 @@ <<136,288,2347>> :> 49649 @@ <<140,322,2448>> :> 91527
       @@ <<141,317,2448>> :> 26092 @@ <<141,318,2448>> :> 6807 @@ <<141,324,2448>> :> 24073
       @@ <<142,318,2448>> :> 18292 @@ <<142,325,2448>> :> 92917 @@ <<143,316,2448>> :> 60429
       @@ <<143,317,2448>> :> 53280 @@ <<144,316,2448>> :> 79614 @@ <<144,318,2448>> :> 16420
       @@ <<144,324,2448>> :> 37900 @@ <<145,316,2448>> :> 82418 @@ <<147,321,2448>> :> 57724 )
  @@ (    <<148,317,2448>> :> 80898 @@ <<148,321,2448>> :> 77256 @@ <<148,322,2448>> :> 24240
       @@ <<148,325,2448>> :> 15727 @@ <<154,345,2549>> :> 17460 @@ <<154,346,2549>> :> 29013
       @@ <<154,352,2549>> :> 39334 @@ <<155,345,2549>> :> 81246 @@ <<155,353,2549>> :> 48690
       @@ <<155,354,2549>> :> 75245 @@ <<156,352,2549>> :> 85912 @@ <<156,353,2549>> :> 91275
       @@ <<156,354,2549>> :> 45456 @@ <<157,345,2549>> :> 23512 @@ <<158,345,2549>> :> 82952
       @@ <<158,349,2549>> :> 79026 @@ <<158,351,2549>> :> 52460 @@ <<159,348,2549>> :> 11481
       @@ <<159,349,2549>> :> 86349 @@ <<160,349,2549>> :> 24468 @@ <<161,346,2549>> :> 79697
       @@ <<162,345,2549>> :> 62514 @@ <<166,377,2650>> :> 55321 @@ <<166,379,2650>> :> 14194
       @@ <<167,378,2650>> :> 42493 @@ <<167,382,2650>> :> 10323 @@ <<168,375,2650>> :> 21733
       @@ <<168,377,2650>> :> 20646 @@ <<168,380,2650>> :> 28081 @@ <<168,383,2650>> :> 67380
       @@ <<169,375,2650>> :> 47830 @@ <<169,383,2650>> :> 93353 @@ <<170,377,2650>> :> 45353
       @@ <<171,374,2650>> :> 9177 @@ <<172,380,2650>> :> 56918 @@ <<172,382,2650>> :> 6334
       @@ <<173,377,2650>> :> 50333 @@ <<173,381,2650>> :> 61207 @@ <<173,382,2650>> :> 18268 )
  @@ (    <<173,383,2650>> :> 9999 @@ <<175,379,2650>> :> 37808 @@ <<175,380,2650>> :> 43058
       @@ <<180,407,2751>> :> 47720 @@ <<181,405,2751>> :> 82276 @@ <<181,409,2751>> :> 36242
       @@ <<183,405,2751>> :> 67138 @@ <<183,410,2751>> :> 71256 @@ <<184,403,2751>> :> 76719
       @@ <<184,407,2751>> :> 12979 @@ <<184,409,2751>> :> 18628 @@ <<185,410,2751>> :> 25889
       @@ <<186,406,2751>> :> 13142 @@ <<186,407,2751>> :> 15040 @@ <<187,404,2751>> :> 13038
       @@ <<188,404,2751>> :> 23937 @@ <<218,491,3054>> :> 58837 @@ <<218,492,3054>> :> 29574
       @@ <<218,493,3054>> :> 94610 @@ <<218,496,3054>> :> 19856 @@ <<219,494,3054>> :> 85020
       @@ <<219,498,3054>> :> 19208 @@ <<220,493,3054>> :> 79290 @@ <<220,496,3054>> :> 26413
       @@ <<220,499,3054>> :> 52611 @@ <<221,490,3054>> :> 65022 @@ <<221,491,3054>> :> 33215
       @@ <<221,498,3054>> :> 78366 @@ <<222,494,3054>> :> 57062 @@ <<222,497,3054>> :> 26181
       @@ <<222,499,3054>> :> 71 @@ <<223,490,3054>> :> 90946 @@ <<223,495,3054>> :> 26883
       @@ <<223,496,3054>> :> 17567 @@ <<223,499,3054>> :> 42474 @@ <<224,490,3054>> :> 98842
       @@ <<224,493,3054>> :> 25880 @@ <<224,497,3054>> :> 94937 @@ <<225,490,3054>> :> 62127 )
  @@ (    <<225,496,3054>> :> 50171 @@ <<225,499,3054>> :> 94139 @@ <<226,490,3054>> :> 63936
       @@ <<226,491,3054>> :> 81654 @@ <<226,496,3054>> :> 22208 @@ <<226,499,3054>> :> 2419
       @@ <<227,495,3054>> :> 56154 @@ <<231,520,3155>> :> 6175 @@ <<231,527,3155>> :> 20944
       @@ <<232,520,3155>> :> 36886 @@ <<232,521,3155>> :> 11455 @@ <<232,527,3155>> :> 77545
       @@ <<233,519,3155>> :> 87183 @@ <<234,527,3155>> :> 22620 @@ <<235,519,3155>> :> 85938
       @@ <<235,522,3155>> :> 73234 @@ <<235,526,3155>> :> 68591 @@ <<236,525,3155>> :> 10614
       @@ <<236,527,3155>> :> 87085 @@ <<236,528,3155>> :> 79460 @@ <<237,523,3155>> :> 60107
       @@ <<238,524,3155>> :> 20710 @@ <<238,526,3155>> :> 87562 @@ <<238,527,3155>> :> 59517
       @@ <<238,528,3155>> :> 1849 @@ <<240,519,3155>> :> 19070 @@ <<244,549,3256>> :> 60135
       @@ <<245,548,3256>> :> 14860 @@ <<246,549,3256>> :> 29280 @@ <<246,554,3256>> :> 88929
       @@ <<247,556,3256>> :> 43685 @@ <<248,548,3256>> :> 48870 @@ <<248,552,3256>> :> 48270
       @@ <<249,554,3256>> :> 68729 @@ <<250,551,3256>> :> 49490 @@ <<250,554,3256>> :> 20558
       @@ <<251,553,3256>> :> 55565 @@ <<252,549,3256>> :> 43283 @@ <<252,554,3256>> :> 61929 )
  @@ (    <<253,553,3256>> :> 7663 @@ <<253,555,3256>> :> 9964 @@ <<257,579,3357>> :> 61834
       @@ <<258,578,3357>> :> 43949 @@ <<259,578,3357>> :> 31930 @@ <<262,581,3357>> :> 67861
       @@ <<263,581,3357>> :> 32585 @@ <<263,585,3357>> :> 58427 @@ <<264,582,3357>> :> 61267
       @@ <<264,585,3357>> :> 54934 @@ <<265,579,3357>> :> 41348 @@ <<265,580,3357>> :> 24321
       @@ <<266,577,3357>> :> 96496 @@ <<270,607,3458>> :> 56250 @@ <<270,608,3458>> :> 5204
       @@ <<270,609,3458>> :> 23328 @@ <<270,612,3458>> :> 56978 @@ <<271,610,3458>> :> 17510
       @@ <<271,614,3458>> :> 20054 @@ <<272,609,3458>> :> 89934 @@ <<272,612,3458>> :> 12252
       @@ <<272,615,3458>> :> 5722 @@ <<273,606,3458>> :> 55539 @@ <<273,607,3458>> :> 17721
       @@ <<273,614,3458>> :> 40980 @@ <<274,610,3458>> :> 36967 @@ <<274,613,3458>> :> 70062
       @@ <<274,615,3458>> :> 97621 @@ <<275,606,3458>> :> 26344 @@ <<275,611,3458>> :> 23080
       @@ <<275,612,3458>> :> 20034 @@ <<275,615,3458>> :> 54479 @@ <<276,606,3458>> :> 83827
       @@ <<276,609,3458>> :> 84784 @@ <<276,613,3458>> :> 71676 @@ <<277,606,3458>> :> 18827
       @@ <<277,612,3458>> :> 22601 @@ <<277,615,3458>> :> 39038 @@ <<278,606,3458>> :> 77661 )
  @@ (    <<278,607,3458>> :> 8162 @@ <<278,612,3458>> :> 65923 @@ <<278,615,3458>> :> 94170
       @@ <<279,611,3458>> :> 98589 @@ <<283,636,3559>> :> 75640 @@ <<283,643,3559>> :> 51358
       @@ <<284,636,3559>> :> 70482 @@ <<284,637,3559>> :> 3947 @@ <<284,643,3559>> :> 27489
       @@ <<285,635,3559>> :> 42335 @@ <<286,643,3559>> :> 16129 @@ <<287,635,3559>> :> 59225
       @@ <<287,638,3559>> :> 71960 @@ <<287,642,3559>> :> 90095 @@ <<288,641,3559>> :> 52452
       @@ <<288,643,3559>> :> 2332 @@ <<288,644,3559>> :> 46265 @@ <<289,639,3559>> :> 53842
       @@ <<290,640,3559>> :> 17407 @@ <<290,642,3559>> :> 26572 @@ <<290,643,3559>> :> 36798
       @@ <<290,644,3559>> :> 60435 @@ <<292,635,3559>> :> 90624 @@ <<296,665,3660>> :> 27694
       @@ <<297,664,3660>> :> 9810 @@ <<298,665,3660>> :> 70107 @@ <<298,670,3660>> :> 19910
       @@ <<299,672,3660>> :> 40236 @@ <<300,664,3660>> :> 15786 @@ <<300,668,3660>> :> 35409
       @@ <<301,670,3660>> :> 45080 @@ <<302,667,3660>> :> 5936 @@ <<302,670,3660>> :> 37456
       @@ <<303,669,3660>> :> 51178 @@ <<304,665,3660>> :> 41410 @@ <<304,670,3660>> :> 89651
       @@ <<305,669,3660>> :> 60859 @@ <<305,671,3660>> :> 21476 @@ <<309,695,3761>> :> 16034 )
  @@ (    <<310,694,3761>> :> 10203 @@ <<311,694,3761>> :> 26399 @@ <<314,697,3761>> :> 88311
       @@ <<315,697,3761>> :> 37821 @@ <<315,701,3761>> :> 91982 @@ <<316,698,3761>> :> 4220
       @@ <<316,701,3761>> :> 7315 @@ <<317,695,3761>> :> 72124 @@ <<317,696,3761>> :> 60864
       @@ <<318,693,3761>> :> 40063 @@ <<348,786,4064>> :> 54937 @@ <<349,782,4064>> :> 45686
       @@ <<349,788,4064>> :> 28011 @@ <<350,780,4064>> :> 64011 @@ <<350,782,4064>> :> 35891
       @@ <<350,789,4064>> :> 50748 @@ <<351,780,4064>> :> 19348 @@ <<351,781,4064>> :> 69298
       @@ <<351,787,4064>> :> 50502 @@ <<351,789,4064>> :> 32279 @@ <<352,782,4064>> :> 51900
       @@ <<352,788,4064>> :> 72179 @@ <<352,789,4064>> :> 60815 @@ <<353,780,4064>> :> 74535
       @@ <<353,784,4064>> :> 59064 @@ <<353,786,4064>> :> 96316 @@ <<354,787,4064>> :> 66057
       @@ <<354,788,4064>> :> 2323 @@ <<355,783,4064>> :> 4680 @@ <<355,784,4064>> :> 12521
       @@ <<355,786,4064>> :> 35415 @@ <<355,788,4064>> :> 4116 @@ <<355,789,4064>> :> 41615
       @@ <<357,780,4064>> :> 78293 @@ <<357,786,4064>> :> 19539 @@ <<361,810,4165>> :> 22482
       @@ <<361,812,4165>> :> 31915 @@ <<361,815,4165>> :> 1634 @@ <<362,809,4165>> :> 67325 )
  @@ (    <<362,811,4165>> :> 66735 @@ <<362,817,4165>> :> 44035 @@ <<363,811,4165>> :> 99159
       @@ <<363,815,4165>> :> 57450 @@ <<364,810,4165>> :> 10564 @@ <<365,809,4165>> :> 96419
       @@ <<365,813,4165>> :> 67061 @@ <<365,818,4165>> :> 77981 @@ <<366,813,4165>> :> 72370
       @@ <<367,813,4165>> :> 2835 @@ <<367,815,4165>> :> 91516 @@ <<368,809,4165>> :> 2951
       @@ <<368,813,4165>> :> 83302 @@ <<368,815,4165>> :> 345 @@ <<368,816,4165>> :> 98656
       @@ <<369,810,4165>> :> 25212 @@ <<369,811,4165>> :> 69221 @@ <<369,818,4165>> :> 9950
       @@ <<370,809,4165>> :> 81613 @@ <<-3,-3,4242>> :> 89433 @@ <<-3,-2,4242>> :> 33586
       @@ <<-3,-1,4242>> :> 39259 @@ <<-3,0,4242>> :> 45368 @@ <<-3,1,4242>> :> 99628
       @@ <<-3,2,4242>> :> 32114 @@ <<-3,3,4242>> :> 5328 @@ <<-3,4,4242>> :> 91356
       @@ <<-3,5,4242>> :> 18869 @@ <<-3,6,4242>> :> 94734 @@ <<-2,-3,4242>> :> 46871
       @@ <<-2,-2,4242>> :> 42361 @@ <<-2,-1,4242>> :> 52935 @@ <<-2,0,4242>> :> 65795
       @@ <<-2,1,4242>> :> 7713 @@ <<-2,2,4242>> :> 73312 @@ <<-2,3,4242>> :> 84232
       @@ <<-2,4,4242>> :> 55901 @@ <<-2,5,4242>> :> 58932 @@ <<-2,6,4242>> :> 65820 )
  @@ (    <<-1,-3,4242>> :> 13730 @@ <<-1,-2,4242>> :> 24164 @@ <<-1,-1,4242>> :> 21034
       @@ <<-1,0,4242>> :> 41897 @@ <<-1,1,4242>> :> 87981 @@ <<-1,2,4242>> :> 99954
       @@ <<-1,3,4242>> :> 3720 @@ <<-1,4,4242>> :> 89805 @@ <<-1,5,4242>> :> 49541
       @@ <<-1,6,4242>> :> 59190 @@ <<0,-3,4242>> :> 26735 @@ <<0,-2,4242>> :> 46465
       @@ <<0,-1,4242>> :> 94478 @@ <<0,0,4242>> :> 69394 @@ <<0,1,4242>> :> 73766
       @@ <<0,2,4242>> :> 79207 @@ <<0,3,4242>> :> 57981 @@ <<0,4,4242>> :> 56845
       @@ <<0,5,4242>> :> 11298 @@ <<0,6,4242>> :> 57464 @@ <<1,-3,4242>> :> 58303
       @@ <<1,-2,4242>> :> 88831 @@ <<1,-1,4242>> :> 38705 @@ <<1,0,4242>> :> 32935
       @@ <<1,1,4242>> :> 33410 @@ <<1,2,4242>> :> 61455 @@ <<1,3,4242>> :> 67687
       @@ <<1,4,4242>> :> 31773 @@ <<1,5,4242>> :> 10292 @@ <<1,6,4242>> :> 53714
       @@ <<2,-3,4242>> :> 20396 @@ <<2,-2,4242>> :> 72434 @@ <<2,-1,4242>> :> 77377
       @@ <<2,0,4242>> :> 97469 @@ <<2,1,4242>> :> 18413 @@ <<2,2,4242>> :> 20208
       @@ <<2,3,4242>> :> 31117 @@ <<2,4,4242>> :> 60819 @@ <<2,5,4242>> :> 17903 )
  @@ (    <<2,6,4242>> :> 46916 @@ <<3,-3,4242>> :> 13602 @@ <<3,-2,4242>> :> 61312
       @@ <<3,-1,4242>> :> 80732 @@ <<3,0,4242>> :> 39008 @@ <<3,1,4242>> :> 1474
       @@ <<3,2,4242>> :> 69642 @@ <<3,3,4242>> :> 28812 @@ <<3,4,4242>> :> 37387
       @@ <<3,5,4242>> :> 17121 @@ <<3,6,4242>> :> 80162 @@ <<4,-3,4242>> :> 12886
       @@ <<4,-2,4242>> :> 81869 @@ <<4,-1,4242>> :> 76764 @@ <<4,0,4242>> :> 35834
       @@ <<4,1,4242>> :> 23886 @@ <<4,2,4242>> :> 43568 @@ <<4,3,4242>> :> 52216
       @@ <<4,4,4242>> :> 49970 @@ <<4,5,4242>> :> 18020 @@ <<4,6,4242>> :> 367
       @@ <<5,-3,4242>> :> 13932 @@ <<5,-2,4242>> :> 10883 @@ <<5,-1,4242>> :> 12951
       @@ <<5,0,4242>> :> 23454 @@ <<5,1,4242>> :> 73534 @@ <<5,2,4242>> :> 45352
       @@ <<5,3,4242>> :> 19236 @@ <<5,4,4242>> :> 64403 @@ <<5,5,4242>> :> 94581
       @@ <<5,6,4242>> :> 48597 @@ <<6,-3,4242>> :> 34 @@ <<6,-2,4242>> :> 21519
       @@ <<6,-1,4242>> :> 72369 @@ <<6,0,4242>> :> 89770 @@ <<6,1,4242>> :> 74736
       @@ <<6,2,4242>> :> 48663 @@ <<6,3,4242>> :> 46514 @@ <<6,4,4242>> :> 27227 )
  @@ (    <<6,5,4242>> :> 97197 @@ <<6,6,4242>> :> 93863 @@ <<375,839,4266>> :> 11375
       @@ <<375,840,4266>> :> 5099 @@ <<376,839,4266>> :> 23822 @@ <<376,844,4266>> :> 75901
       @@ <<376,846,4266>> :> 34981 @@ <<376,847,4266>> :> 65873 @@ <<377,838,4266>> :> 5454
       @@ <<377,847,4266>> :> 8238 @@ <<378,840,4266>> :> 72730 @@ <<378,845,4266>> :> 50929
       @@ <<380,844,4266>> :> 68250 @@ <<381,841,4266>> :> 42516 @@ <<381,845,4266>> :> 66018
       @@ <<381,847,4266>> :> 47038 @@ <<382,839,4266>> :> 74087 @@ <<382,841,4266>> :> 63720
       @@ <<383,843,4266>> :> 43353 @@ <<387,868,4367>> :> 54995 @@ <<387,869,4367>> :> 36703
       @@ <<387,875,4367>> :> 18574 @@ <<388,868,4367>> :> 92770 @@ <<389,867,4367>> :> 12174
       @@ <<389,868,4367>> :> 41819 @@ <<389,873,4367>> :> 93100 @@ <<391,871,4367>> :> 48965
       @@ <<391,874,4367>> :> 23225 @@ <<392,875,4367>> :> 38025 @@ <<393,873,4367>> :> 96194
       @@ <<393,875,4367>> :> 48075 @@ <<394,867,4367>> :> 83273 @@ <<394,870,4367>> :> 61449
       @@ <<394,872,4367>> :> 78533 @@ <<394,875,4367>> :> 69841 @@ <<395,869,4367>> :> 43169
       @@ <<396,867,4367>> :> 62868 @@ <<400,902,4468>> :> 41975 @@ <<401,898,4468>> :> 250 )
  @@ (    <<401,904,4468>> :> 10095 @@ <<402,896,4468>> :> 22281 @@ <<402,898,4468>> :> 79687
       @@ <<402,905,4468>> :> 98429 @@ <<403,896,4468>> :> 56718 @@ <<403,897,4468>> :> 20821
       @@ <<403,903,4468>> :> 75402 @@ <<403,905,4468>> :> 76365 @@ <<404,898,4468>> :> 23135
       @@ <<404,904,4468>> :> 76226 @@ <<404,905,4468>> :> 72130 @@ <<405,896,4468>> :> 65107
       @@ <<405,900,4468>> :> 12470 @@ <<405,902,4468>> :> 92061 @@ <<406,903,4468>> :> 8560
       @@ <<406,904,4468>> :> 29470 @@ <<407,899,4468>> :> 73745 @@ <<407,900,4468>> :> 98983
       @@ <<407,902,4468>> :> 51324 @@ <<407,904,4468>> :> 16660 @@ <<407,905,4468>> :> 12839
       @@ <<409,896,4468>> :> 10533 @@ <<409,902,4468>> :> 13898 @@ <<413,926,4569>> :> 29576
       @@ <<413,928,4569>> :> 84450 @@ <<413,931,4569>> :> 45849 @@ <<414,925,4569>> :> 41438
       @@ <<414,927,4569>> :> 14301 @@ <<414,933,4569>> :> 23266 @@ <<415,927,4569>> :> 19464
       @@ <<415,931,4569>> :> 70599 @@ <<416,926,4569>> :> 46887 @@ <<417,925,4569>> :> 32702
       @@ <<417,929,4569>> :> 56871 @@ <<417,934,4569>> :> 2349 @@ <<418,929,4569>> :> 42845
       @@ <<419,929,4569>> :> 49678 @@ <<419,931,4569>> :> 73823 @@ <<420,925,4569>> :> 2768 )
  @@ (    <<420,929,4569>> :> 18529 @@ <<420,931,4569>> :> 93118 @@ <<420,932,4569>> :> 30970
       @@ <<421,926,4569>> :> 9757 @@ <<421,927,4569>> :> 66856 @@ <<421,934,4569>> :> 62333
       @@ <<422,925,4569>> :> 3333 @@ <<427,955,4670>> :> 52728 @@ <<427,956,4670>> :> 48836
       @@ <<428,955,4670>> :> 34800 @@ <<428,960,4670>> :> 82196 @@ <<428,962,4670>> :> 96896
       @@ <<428,963,4670>> :> 65183 @@ <<429,954,4670>> :> 25483 @@ <<429,963,4670>> :> 64024
       @@ <<430,956,4670>> :> 431 @@ <<430,961,4670>> :> 84132 @@ <<432,960,4670>> :> 97564
       @@ <<433,957,4670>> :> 32179 @@ <<433,961,4670>> :> 21887 @@ <<433,963,4670>> :> 31937
       @@ <<434,955,4670>> :> 63753 @@ <<434,957,4670>> :> 35435 @@ <<435,959,4670>> :> 44151
       @@ <<439,984,4771>> :> 11742 @@ <<439,985,4771>> :> 15508 @@ <<439,991,4771>> :> 90100
       @@ <<440,984,4771>> :> 10018 @@ <<441,983,4771>> :> 28715 @@ <<441,984,4771>> :> 28656
       @@ <<441,989,4771>> :> 14191 @@ <<443,987,4771>> :> 64466 @@ <<443,990,4771>> :> 40921
       @@ <<444,991,4771>> :> 51921 @@ <<445,989,4771>> :> 49732 @@ <<445,991,4771>> :> 84244
       @@ <<446,983,4771>> :> 95924 @@ <<446,986,4771>> :> 12664 @@ <<446,988,4771>> :> 65679 )
  @@ (    <<446,991,4771>> :> 23551 @@ <<447,985,4771>> :> 10005 @@ <<448,983,4771>> :> 88364
       @@ <<480,1070,5074>> :> 50118 @@ <<480,1071,5074>> :> 46843 @@ <<480,1073,5074>> :> 20495
       @@ <<482,1077,5074>> :> 95315 @@ <<483,1070,5074>> :> 81081 @@ <<483,1074,5074>> :> 39892
       @@ <<483,1075,5074>> :> 34991 @@ <<483,1078,5074>> :> 68261 @@ <<484,1073,5074>> :> 80343
       @@ <<484,1077,5074>> :> 28380 @@ <<485,1073,5074>> :> 62269 @@ <<485,1074,5074>> :> 35150
       @@ <<486,1070,5074>> :> 84072 @@ <<486,1073,5074>> :> 78327 @@ <<486,1076,5074>> :> 43951
       @@ <<491,1101,5175>> :> 76724 @@ <<491,1104,5175>> :> 38343 @@ <<493,1100,5175>> :> 65756
       @@ <<494,1107,5175>> :> 96066 @@ <<495,1102,5175>> :> 68593 @@ <<495,1103,5175>> :> 65216
       @@ <<496,1104,5175>> :> 26384 @@ <<497,1099,5175>> :> 921 @@ <<497,1102,5175>> :> 83818
       @@ <<497,1103,5175>> :> 54051 @@ <<497,1105,5175>> :> 45955 @@ <<498,1099,5175>> :> 45288
       @@ <<499,1099,5175>> :> 51944 @@ <<500,1099,5175>> :> 87600 @@ <<504,1129,5276>> :> 53576
       @@ <<506,1128,5276>> :> 40187 @@ <<506,1129,5276>> :> 83268 @@ <<509,1132,5276>> :> 79969
       @@ <<509,1136,5276>> :> 60106 @@ <<510,1131,5276>> :> 41646 @@ <<510,1132,5276>> :> 38585 )
  @@ (    <<510,1134,5276>> :> 92660 @@ <<511,1128,5276>> :> 89191 @@ <<511,1132,5276>> :> 48659
       @@ <<512,1128,5276>> :> 16727 @@ <<512,1129,5276>> :> 41632 @@ <<512,1134,5276>> :> 46604
       @@ <<513,1135,5276>> :> 35140 @@ <<518,1158,5377>> :> 10076 @@ <<518,1161,5377>> :> 38539
       @@ <<519,1163,5377>> :> 55439 @@ <<520,1165,5377>> :> 99771 @@ <<521,1159,5377>> :> 79592
       @@ <<522,1157,5377>> :> 77142 @@ <<522,1162,5377>> :> 32907 @@ <<522,1163,5377>> :> 18852
       @@ <<523,1161,5377>> :> 56908 @@ <<523,1164,5377>> :> 26504 @@ <<524,1160,5377>> :> 86309
       @@ <<524,1165,5377>> :> 96460 @@ <<524,1166,5377>> :> 39126 @@ <<525,1159,5377>> :> 83030
       @@ <<525,1160,5377>> :> 30534 @@ <<532,1186,5478>> :> 43448 @@ <<532,1187,5478>> :> 77520
       @@ <<532,1189,5478>> :> 35033 @@ <<534,1193,5478>> :> 56130 @@ <<535,1186,5478>> :> 50211
       @@ <<535,1190,5478>> :> 14942 @@ <<535,1191,5478>> :> 10831 @@ <<535,1194,5478>> :> 80566
       @@ <<536,1189,5478>> :> 63006 @@ <<536,1193,5478>> :> 32820 @@ <<537,1189,5478>> :> 30495
       @@ <<537,1190,5478>> :> 23744 @@ <<538,1186,5478>> :> 69225 @@ <<538,1189,5478>> :> 76668
       @@ <<538,1192,5478>> :> 16649 @@ <<543,1217,5579>> :> 90357 @@ <<543,1220,5579>> :> 40258 )
  @@ (    <<545,1216,5579>> :> 51544 @@ <<546,1223,5579>> :> 60366 @@ <<547,1218,5579>> :> 33723
       @@ <<547,1219,5579>> :> 2359 @@ <<548,1220,5579>> :> 45185 @@ <<549,1215,5579>> :> 27279
       @@ <<549,1218,5579>> :> 59031 @@ <<549,1219,5579>> :> 68163 @@ <<549,1221,5579>> :> 6425
       @@ <<550,1215,5579>> :> 26472 @@ <<551,1215,5579>> :> 47306 @@ <<552,1215,5579>> :> 73425
       @@ <<556,1245,5680>> :> 33069 @@ <<558,1244,5680>> :> 23851 @@ <<558,1245,5680>> :> 83754
       @@ <<561,1248,5680>> :> 13492 @@ <<561,1252,5680>> :> 43584 @@ <<562,1247,5680>> :> 73246
       @@ <<562,1248,5680>> :> 58569 @@ <<562,1250,5680>> :> 10496 @@ <<563,1244,5680>> :> 7883
       @@ <<563,1248,5680>> :> 76504 @@ <<564,1244,5680>> :> 46671 @@ <<564,1245,5680>> :> 67025
       @@ <<564,1250,5680>> :> 909 @@ <<565,1251,5680>> :> 32077 @@ <<570,1274,5781>> :> 3647
       @@ <<570,1277,5781>> :> 62674 @@ <<571,1279,5781>> :> 79244 @@ <<572,1281,5781>> :> 49142
       @@ <<573,1275,5781>> :> 31999 @@ <<574,1273,5781>> :> 67067 @@ <<574,1278,5781>> :> 99767
       @@ <<574,1279,5781>> :> 57501 @@ <<575,1277,5781>> :> 37819 @@ <<575,1280,5781>> :> 25709
       @@ <<576,1276,5781>> :> 15808 @@ <<576,1281,5781>> :> 77632 @@ <<576,1282,5781>> :> 86681 )
  @@ (    <<577,1275,5781>> :> 29071 @@ <<577,1276,5781>> :> 96301 )

\* util.js seededRandom(x, y, seed): a value in [0,1), here in 0..HashScale-1.
seededRandom(x, y, seed) == HashRows[<<x, y, seed>>]

\* ------------------------------------------------------------ NameGenerator
cityRoots == <<"Geneva", "Nova", "Arcadia", "Kappa", "Echo", "Delta", "Zenith",
               "Orion", "Vega", "Helix">>
poiRoots == <<"Shop", "Mall", "Town", "Park", "Yard", "Depot", "Block", "Tower">>
suffixes == <<"-1", "-2", "-3", "-4", "-5", "-7", "-9", " Prime">>
Letters == <<"A", "B", "C", "D", "E", "F", "G", "H", "I", "J", "K", "L", "M",
             "N", "O", "P", "Q", "R", "S", "T", "U", "V", "W", "X", "Y", "Z">>

\* Math.floor(r * mod) for the hash of (x, y) decorrelated by extra.
hashInt(x, y, extra, mod) ==
  (seededRandom(x + extra * 13, y + extra * 29, nameSeed + extra * 101) * mod)
    \div HashScale

getCityRootForCoords(x, y) == cityRoots[hashInt(x, y, 3, Len(cityRoots)) + 1]

getBlockCode(x, y) == <<Letters[(Abs(x) % 26) + 1], ToString((Abs(y) % 99) + 1)>>

getCityName(x, y) ==
  <<getCityRootForCoords(x, y), " City, Block ">> \o getBlockCode(x, y)

getAreaName(type, x, y) ==
  IF type = "city" THEN getCityName(x, y)
  ELSE IF type = "park" THEN <<"Park Area Block ">> \o getBlockCode(x, y)
  ELSE IF type = "wasteland"
       THEN <<"Wasteland Block ", ToString(Abs(x * 31 + y * 7) % 400)>>
  ELSE IF type = "suburb"
       THEN <<"Town ", getCityRootForCoords(x, y), "-">> \o getBlockCode(x, y)
  ELSE IF type = "highway" THEN <<"Elevated Highway ">> \o getBlockCode(x, y)
  ELSE <<"Unmapped Block ">> \o getBlockCode(x, y)

\* getPoiName(kind, x, y, index).
getPoiName(kind, x, y, index) ==
  LET root == poiRoots[hashInt(x, y, 7 + index, Len(poiRoots)) + 1]
      city == getCityRootForCoords(x, y)
      suf == suffixes[hashInt(x, y, 11 + index, Len(suffixes)) + 1]
  IN  IF kind = "shop" THEN <<"Shop ", city, suf>>
      ELSE IF kind = "mall" THEN <<"Mall ", city, suf>>
      ELSE IF kind = "town" THEN <<"Town ", city, suf>>
      ELSE IF kind = "park" THEN <<"Park ", city, suf>>
      ELSE <<root, " ", city, suf>>

\* ------------------------------------------------------------- WorldManager
\* ChunkTypeOf whose first threshold is inclusive.
ChunkTypeOfLE(r) ==
  IF r * 100 <= 45 * HashScale THEN "city"
  ELSE IF r * 100 < 60 * HashScale THEN "suburb"
  ELSE IF r * 100 < 72 * HashScale THEN "park"
  ELSE IF r * 100 < 84 * HashScale THEN "highway"
  ELSE "wasteland"

\* The bucket of a hash value r (the r of _getChunkType, lines 64-68).
ChunkTypeOf(r) ==
  IF r * 100 < 45 * HashScale THEN "city"
  ELSE IF r * 100 < 60 * HashScale THEN "suburb"
  ELSE IF r * 100 < 72 * HashScale THEN "park"
  ELSE IF r * 100 < 84 * HashScale THEN "highway"
  ELSE "wasteland"

getChunkType(cx, cz) == ChunkTypeOf(seededRandom(cx, cz, globalSeed))

chunkKey(cx, cz) == <<cx, cz>>

\* Math.floor(v / CHUNK_SIZE) for a world coordinate v in fixed point.
ChunkCoord(v) == v \div (CHUNK_SIZE * FP)

\* The body of the lot loop of _populateBuildings (lines 139-197) for lot (i, j)
\* whose hash value is r: what it pushes onto this.colliders and this.doors
\* (nothing for an empty lot).
LotOf(cx, cz, areaName, type, i, j, r) ==
  LET rows == IF type = "city" THEN 4 ELSE 3
      cols == IF type = "city" THEN 4 ELSE 3
      spacingX == (CHUNK_SIZE * FP) \div (cols + 1)
      spacingZ == (CHUNK_SIZE * FP) \div (rows + 1)
      width == 8 * FP + ToFP(r * 10)
      depth == 8 * FP + ToFP((r * 11) % (6 * HashScale))
      x == (i + 1) * spacingX - (CHUNK_SIZE * FP) \div 2
      z == (j + 1) * spacingZ - (CHUNK_SIZE * FP) \div 2
      doorLocalX == x + (width \div 2 + (2 * FP) \div 10)
      poiKind == IF r * 10 < 5 * HashScale THEN "shop" ELSE "office"
      poiName == IF poiKind = "shop"
                 THEN getPoiName("shop", cx, cz, i * 10 + j)
                 ELSE areaName \o <<" Tower-", ToString(i), ToString(j)>>
  IN  IF r * 10 < 2 * HashScale
      THEN [colliders |-> <<>>, doors |-> <<>>]
      ELSE [colliders |-> << [minX |-> cx * CHUNK_SIZE * FP + x - width \div 2,
                              maxX |-> cx * CHUNK_SIZE * FP + x + width \div 2,
                              minZ |-> cz * CHUNK_SIZE * FP + z - depth \div 2,
                              maxZ |-> cz * CHUNK_SIZE * FP + z + depth \div 2,
                              chunkKey |-> chunkKey(cx, cz)] >>,
            doors |-> << [x |-> cx * CHUNK_SIZE * FP + doorLocalX,
                          z |-> cz * CHUNK_SIZE * FP + z,
                          areaName |-> poiName,
                          chunkKey |-> chunkKey(cx, cz),
                          interiorType |-> IF poiKind = "shop" THEN "shop" ELSE "office",
                          id |-> <<cx, cz, i, j>>] >>]

\* Lot whose door id counts the doors pushed so far instead of naming the lot.
LotCounted(cx, cz, areaName, type, i, j) ==
  LET lot == LotOf(cx, cz, areaName, type, i, j,
                   seededRandom((cx * 92821 + cz * 68917 + globalSeed * 3) + i * 17,
                                (cx * 92821 + cz * 68917 + globalSeed * 3) + j * 37, 99))
  IN  [lot EXCEPT !.doors = [k \in 1..Len(@) |->
                               [@[k] EXCEPT !.id = <<cx, cz, i, Len(doors)>>]]]

\* Line 139: the hash value of lot (i, j), and the lot it gives.
Lot(cx, cz, areaName, type, i, j) ==
  LotOf(cx, cz, areaName, type, i, j,
        seededRandom((cx * 92821 + cz * 68917 + globalSeed * 3) + i * 17,
                     (cx * 92821 + cz * 68917 + globalSeed * 3) + j * 37, 99))

\* The pushes of a, then those of b.
Pushes(a, b) ==
  [colliders |-> a.colliders \o b.colliders, doors |-> a.doors \o b.doors]

RECURSIVE LotLoop(_, _, _, _, _)
\* Lines 137-138: the lots (i, j), i outer and j inner, from lot number n on
\* (n = i * rows + j).
LotLoop(cx, cz, areaName, type, n) ==
  LET rows == IF type = "city" THEN 4 ELSE 3
      cols == IF type = "city" THEN 4 ELSE 3
  IN  IF n >= cols * rows THEN [colliders |-> <<>>, doors |-> <<>>]
      ELSE Pushes(Lot(cx, cz, areaName, type, n \div rows, n % rows),
                  LotLoop(cx, cz, areaName, type, n + 1))

\* _populateBuildings: what it appends to this.colliders and this.doors.
populateBuildings(cx, cz, areaName, type) == LotLoop(cx, cz, areaName, type, 0)

\* Lines 91-109 for a chunk of the given type and area name: the chunk record
\* stored in the Map and what is appended to the lists.  The meshes are not
\* modelled; the chunk's group is its key in scene.
ChunkOf(cx, cz, type, areaName, built) ==
  [chunk |-> [key |-> chunkKey(cx, cz), cx |-> cx, cz |-> cz, type |-> type,
              areaName |-> areaName],
   colliders |-> built.colliders,
   doors |-> built.doors]

\* BuildingsOf that builds in city chunks only.
BuildingsOfCity(cx, cz, type, areaName) ==
  IF type = "city"
  THEN populateBuildings(cx, cz, areaName, type)
  ELSE [colliders |-> <<>>, doors |-> <<>>]

\* Lines 91-100: buildings stand in city and suburb chunks only.
BuildingsOf(cx, cz, type, areaName) ==
  IF type = "city" \/ type = "suburb"
  THEN populateBuildings(cx, cz, areaName, type)
  ELSE [colliders |-> <<>>, doors |-> <<>>]

Named(cx, cz, type, areaName) ==
  ChunkOf(cx, cz, type, areaName, BuildingsOf(cx, cz, type, areaName))

\* Typed that names the chunk with its coordinates exchanged.
TypedSwapped(cx, cz, type) == Named(cx, cz, type, getAreaName(type, cz, cx))

\* Lines 73-77: the area name of a chunk of the given type.
Typed(cx, cz, type) == Named(cx, cz, type, getAreaName(type, cx, cz))

\* _generateChunk(cx, cz).
generateChunk(cx, cz) == Typed(cx, cz, getChunkType(cx, cz))


\* --------------------------------------------------- WorldManager.update
HasChunk(chs, key) == \E k \in 1..Len(chs) : chs[k].key = key

GetChunk(chs, key) == chs[CHOOSE k \in 1..Len(chs) : chs[k].key = key]

\* Lines 102-109 and 164, 189: chunk g is stored and its pushes appended.
AddChunk(st, g) ==
  [st EXCEPT !.chunks = Append(@, g.chunk),
             !.colliders = @ \o g.colliders,
             !.doors = @ \o g.doors,
             !.scene = @ \cup {g.chunk.key},
             !.generated = Append(@, g)]

\* EnsureChunk without the test of the Map.
EnsureChunkAlways(st, x, z) == AddChunk(st, generateChunk(x, z))

\* Lines 40-43: generate chunk (x, z) unless the Map has its key.
EnsureChunk(st, x, z) ==
  IF ~HasChunk(st.chunks, chunkKey(x, z)) THEN AddChunk(st, generateChunk(x, z))
  ELSE st

\* WindowSide for loops that stop before c + activeRadius.
WindowSideShort == 2 * activeRadius

\* Lines 38-39: the loops run from c - activeRadius to c + activeRadius
\* inclusive, that many values.
WindowSide == 2 * activeRadius + 1

RECURSIVE GenLoop(_, _, _, _)
\* Lines 38-45: x outer, z inner; n counts the iterations done.
GenLoop(st, cx, cz, n) ==
  IF n >= WindowSide * WindowSide THEN st
  ELSE GenLoop(EnsureChunk(st, cx - activeRadius + (n \div WindowSide),
                               cz - activeRadius + (n % WindowSide)),
               cx, cz, n + 1)

\* Far with the two tests joined by "and".
FarBoth(chunk, cx, cz) ==
  /\ Abs(chunk.cx - cx) > activeRadius + 1
  /\ Abs(chunk.cz - cz) > activeRadius + 1

\* Far that also holds for a chunk activeRadius + 1 away.
FarAtRing(chunk, cx, cz) ==
  \/ Abs(chunk.cx - cx) >= activeRadius + 1
  \/ Abs(chunk.cz - cz) >= activeRadius + 1

\* Line 51: the eviction test.
Far(chunk, cx, cz) ==
  \/ Abs(chunk.cx - cx) > activeRadius + 1
  \/ Abs(chunk.cz - cz) > activeRadius + 1

\* EvictChunk that leaves the doors of the chunk in the list.
EvictChunkKeepDoors(st, chunk) ==
  [st EXCEPT !.scene = @ \ {chunk.key},
             !.colliders = SelectSeq(@, LAMBDA c : c.chunkKey # chunk.key),
             !.chunks = SelectSeq(@, LAMBDA c : c.key # chunk.key),
             !.evicted = @ \cup {chunk.key}]

\* Lines 53-57: evict one chunk.
EvictChunk(st, chunk) ==
  [st EXCEPT !.scene = @ \ {chunk.key},
             !.colliders = SelectSeq(@, LAMBDA c : c.chunkKey # chunk.key),
             !.doors = SelectSeq(@, LAMBDA d : d.chunkKey # chunk.key),
             !.chunks = SelectSeq(@, LAMBDA c : c.key # chunk.key),
             !.evicted = @ \cup {chunk.key}]

RECURSIVE EvictLoop(_, _, _, _, _)
\* Lines 48-59: the Map is walked in insertion order (an entry is deleted only
\* when the walk is at it, so every entry present at the start is visited).
EvictLoop(st, entries, cx, cz, n) ==
  IF n > Len(entries) THEN st
  ELSE EvictLoop(IF Far(entries[n], cx, cz) THEN EvictChunk(st, entries[n]) ELSE st,
                 entries, cx, cz, n + 1)

\* Lines 48-59 from the state st the generation loop left.
Evict(st, cx, cz) == EvictLoop(st, st.chunks, cx, cz, 1)

\* WorldManager.update(playerPos): the state it leaves, with what it generated
\* (in order) and the keys it evicted.
update(playerPos) ==
  Evict(GenLoop([chunks |-> chunks, colliders |-> colliders, doors |-> doors,
                 scene |-> scene, generated |-> <<>>, evicted |-> {}],
                ChunkCoord(playerPos[1]), ChunkCoord(playerPos[2]), 0),
        ChunkCoord(playerPos[1]), ChunkCoord(playerPos[2]))

\* ------------------------------------------------- WorldManager queries
\* getAreaNameForPosition(pos), lines 276-284.
getAreaNameForPosition(pos) ==
  LET cx == ChunkCoord(pos[1])
      cz == ChunkCoord(pos[2])
      key == chunkKey(cx, cz)
  IN  IF HasChunk(chunks, key) THEN GetChunk(chunks, key).areaName
      ELSE getAreaName(getChunkType(cx, cz), cx, cz)

\* Line 290-292: the squared planar distance from pos to door d.
DistSq(pos, d) == (pos[1] - d.x) * (pos[1] - d.x) + (pos[2] - d.z) * (pos[2] - d.z)

\* Closer that also replaces the best door at an equal distance.
CloserOrEqual(distSq, bestDistSq) == distSq <= bestDistSq

\* Line 293: whether a door at squared distance distSq replaces the best so far.
Closer(distSq, bestDistSq) == distSq < bestDistSq

RECURSIVE NearLoop(_, _, _, _)
\* Lines 289-297 from door n on, with the best door so far and its squared
\* distance.
NearLoop(pos, n, best, bestDistSq) ==
  IF n > Len(doors) THEN best
  ELSE IF Closer(DistSq(pos, doors[n]), bestDistSq)
       THEN NearLoop(pos, n + 1, Some(doors[n]), DistSq(pos, doors[n]))
       ELSE NearLoop(pos, n + 1, best, bestDistSq)

\* getNearbyDoor(pos, maxDist), lines 286-299.
getNearbyDoor(pos, maxDist) == NearLoop(pos, 1, Null, maxDist * maxDist)

\* ------------------------------------------------------------------ Random
\* src/util.js, lines 15-34.  A 32-bit word w is <<w \div 2^16, w % 2^16>>.
HalfWord == 65536

\* The bitwise exclusive or of two naturals below 2^n.
RECURSIVE Xor(_, _, _)
Xor(a, b, n) ==
  IF n = 0 THEN 0 ELSE ((a + b) % 2) + (2 * Xor(a \div 2, b \div 2, n - 1))

XorWord(v, w) == <<Xor(v[1], w[1], 16), Xor(v[2], w[2], 16)>>

\* x << 13, x >>> 17 and x << 5 on 32 bits.
ShiftLeft13(v) == <<((v[1] % 8) * 8192) + (v[2] \div 8), (v[2] % 8) * 8192>>
ShiftRight17(v) == <<0, v[1] \div 2>>
ShiftLeft5(v) == <<((v[1] % 2048) * 32) + (v[2] \div 2048), (v[2] % 2048) * 32>>

\* Lines 21-25: the three steps of xorshift32; Xorshift(x) is the seed that
\* next() stores.
XorLeft13(v) == XorWord(v, ShiftLeft13(v))
XorRight17(v) == XorWord(v, ShiftRight17(v))
XorLeft5(v) == XorWord(v, ShiftLeft5(v))
Xorshift(v) == XorLeft5(XorRight17(XorLeft13(v)))

\* Line 26: the value next() returns for the stored seed v.  The operator &
\* yields a signed 32-bit integer, so a seed of 2^31 or more comes out
\* negative: the value lies in [-1/2, 1/2).
NextValue(v) == <<IF v[1] >= 32768 THEN v[1] - HalfWord ELSE v[1], v[2]>>

\* Math.floor(n * r) for the value r of a next() call and a natural n.
FloorTimes(n, r) == ((n * r[1]) + ((n * r[2]) \div HalfWord)) \div HalfWord

\* Lines 28-33: int(min, max) on the value r of its next() call.
RandomInt(r, min, max) == min + FloorTimes((max + 1) - min, r)

\* r > k / 100 for the value r of a next() call.
Exceeds(r, k) ==
  \/ (100 * r[1]) + ((100 * r[2]) \div HalfWord) > k * HalfWord
  \/ /\ (100 * r[1]) + ((100 * r[2]) \div HalfWord) = k * HalfWord
     /\ (100 * r[2]) % HalfWord > 0

\* ------------------------------------------------------- fixed-point helpers
Sq(n) == n * n

\* The integer part of the square root of n, n < 2^31.
RECURSIVE SqrtLoop(_, _, _)
SqrtLoop(n, lo, hi) ==
  IF lo >= hi THEN lo
  ELSE IF Sq((lo + hi + 1) \div 2) <= n
       THEN SqrtLoop(n, (lo + hi + 1) \div 2, hi)
       ELSE SqrtLoop(n, lo, ((lo + hi + 1) \div 2) - 1)

Isqrt(n) == SqrtLoop(n, 0, 46340)

\* a / b rounded to the nearest integer, b > 0.
RoundDiv(a, b) == ((2 * a) + b) \div (2 * b)

\* -------------------------------------------------------------- WarManager
\* src/war.js.  Resolution of elapsed time and of positions on the war plane.
TimeScale == 100
WarScale == 1000

\* Lines 31-35: the factions, by id.
factions == [id \in 0..2 |-> [name |-> <<"Faction A", "Faction B", "Faction C">>[id + 1],
                               color |-> <<"#ff5555", "#55ff55", "#5599ff">>[id + 1],
                               id |-> id]]

\* Lines 50-54: the starting hubs.
starts == <<[x |-> 0, y |-> 0], [x |-> 6, y |-> -4], [x |-> -5, y |-> 5]>>

\* A record w holds a WarManager while one of its methods runs: the fields of
\* the object, the messages handed to onEvent (notified), the stockpile after
\* each step of the loop over the bases (trace), the value of the last
\* _pickEnemyLocation (target), and whether the method has thrown (threw).

\* _pushEvent that drops the newest of the old entries of a full ring.
pushEventDropNewest(w, msg) ==
  [w EXCEPT !.recentEvents = IF Len(@) + 1 > 10 THEN <<[msg |-> msg]>> \o SubSeq(@, 2, Len(@))
                             ELSE <<[msg |-> msg]>> \o @,
            !.notified = Append(@, msg)]

\* Lines 96-100: _pushEvent (the time stamp t of the entry is left out).
pushEvent(w, msg) ==
  [w EXCEPT !.recentEvents = IF Len(@) + 1 > 10 THEN <<[msg |-> msg]>> \o SubSeq(@, 1, Len(@) - 1)
                             ELSE <<[msg |-> msg]>> \o @,
            !.notified = Append(@, msg)]

\* Announce that reports a base created silently as well.
AnnounceAlways(w, factionId, x, y, silent) ==
  pushEvent(w, <<factions[factionId].name, " established a new base near ">>
                 \o getAreaName("city", x, y) \o <<".">>)

\* Lines 73-77: the event of a base that was not created silently.
Announce(w, factionId, x, y, silent) ==
  IF silent THEN w
  ELSE pushEvent(w, <<factions[factionId].name, " established a new base near ">>
                      \o getAreaName("city", x, y) \o <<".">>)

\* Lines 62-79: _createBase.
createBase(w, factionId, x, y, silent) ==
  Announce([w EXCEPT !.lastBaseId = @ + 1,
                     !.bases = Append(@, [id |-> w.lastBaseId + 1,
                                          factionId |-> factionId,
                                          x |-> x, y |-> y,
                                          hp |-> 100, resources |-> 50])],
           factionId, x, y, silent)

\* Lines 81-94: _createUnit; the coordinates are in units of 1/WarScale.
createUnit(w, factionId, x, y, type, tx, ty) ==
  [w EXCEPT !.lastUnitId = @ + 1,
            !.units = Append(@, [id |-> w.lastUnitId + 1,
                                 factionId |-> factionId,
                                 x |-> x, y |-> y, tx |-> tx, ty |-> ty,
                                 type |-> type,
                                 hp |-> IF type = "tank" THEN 40
                                        ELSE IF type = "air" THEN 30 ELSE 20])]

\* Lines 48-60: _initStartingBases.
RECURSIVE StartLoop(_, _)
StartLoop(w, i) ==
  IF i > 3 THEN w
  ELSE StartLoop(createBase(w, factions[i - 1].id, starts[i].x, starts[i].y, TRUE),
                 i + 1)

initStartingBases(w) == StartLoop(w, 1)

\* Lines 26-46: the object the constructor leaves.
Constructed ==
  initStartingBases([bases |-> <<>>, units |-> <<>>, lastBaseId |-> 0,
                     lastUnitId |-> 0, seed |-> <<0, 999>>,
                     recentEvents |-> <<>>, notified |-> <<>>, trace |-> <<>>,
                     picks |-> <<>>, arrivals |-> <<>>, moved |-> Null,
                     target |-> [x |-> 0, y |-> 0],
                     value |-> Null, threw |-> FALSE])

\* Line 155: the bases of the other factions, as indices into w.bases.
Enemies(w, factionId) ==
  SelectSeq([k \in 1..Len(w.bases) |-> k],
            LAMBDA k : w.bases[k].factionId # factionId)

\* Lines 159-160 for the index idx drawn: enemies[idx] is undefined when idx
\* is no index of the array, and reading b.x then throws.
PickAt(w, enemies, idx) ==
  IF idx < 0 \/ idx >= Len(enemies) THEN [w EXCEPT !.threw = TRUE]
  ELSE [w EXCEPT !.target = [x |-> w.bases[enemies[idx + 1]].x,
                             y |-> w.bases[enemies[idx + 1]].y]]

\* Line 159 with the seed s that the next() call of int stores.
PickDrawn(w, enemies, s) ==
  PickAt([w EXCEPT !.seed = s], enemies, RandomInt(NextValue(s), 0, Len(enemies) - 1))

PickAmong(w, enemies) ==
  IF Len(enemies) = 0 THEN [w EXCEPT !.target = [x |-> 0, y |-> 0]]
  ELSE PickDrawn(w, enemies, Xorshift(w.seed))

\* History: the call of _pickEnemyLocation that led from w to after, with the
\* locations of the enemy bases it had to choose from.
Picked(w, after, factionId) ==
  [after EXCEPT !.picks =
     Append(@, [factionId |-> factionId,
                enemies |-> {[x |-> w.bases[k].x, y |-> w.bases[k].y] :
                               k \in {j \in 1..Len(w.bases) :
                                        w.bases[j].factionId # factionId}},
                drew |-> after.seed # w.seed,
                threw |-> after.threw,
                target |-> after.target])]

\* Lines 154-161: _pickEnemyLocation; the location is left in w.target.
pickEnemyLocation(w, factionId) ==
  Picked(w, PickAmong(w, Enemies(w, factionId)), factionId)

\* The stockpile of base i at a point of the bases loop.
Traced(w, i, point) ==
  [w EXCEPT !.trace = Append(@, [point |-> point, base |-> w.bases[i].id,
                                 resources |-> w.bases[i].resources])]

\* Lines 112-113 with the seed s that the next() call of int stores.
Gathered(w, i, s) ==
  Traced([w EXCEPT !.seed = s,
                   !.bases[i].resources = @ + (5 + RandomInt(NextValue(s), 0, 5))],
         i, "gather")

Gather(w, i) == Gathered(w, i, Xorshift(w.seed))

\* Lines 118-126: the unit type and the cost for the value of the draw.
UnitType(choice) ==
  IF Exceeds(choice, 75) THEN "tank" ELSE IF Exceeds(choice, 50) THEN "air"
  ELSE "infantry"

UnitCost(choice) ==
  IF Exceeds(choice, 75) THEN 40 ELSE IF Exceeds(choice, 50) THEN 35 ELSE 25

\* Stockpile with the operands of the deduction exchanged.
SpendSwapped(resources, cost) == cost - resources

\* Lines 128 and 136: the stockpile after a deduction.
Spend(resources, cost) == resources - cost

\* Line 130: the unit is created unless _pickEnemyLocation threw.
Deploy(w, i, type) ==
  IF w.threw THEN w
  ELSE createUnit(w, w.bases[i].factionId,
                  w.bases[i].x * WarScale, w.bases[i].y * WarScale, type,
                  w.target.x * WarScale, w.target.y * WarScale)

\* Lines 127-131.
Paid(w, i, type) == Deploy(pickEnemyLocation(w, w.bases[i].factionId), i, type)

\* Lines 117-131 with the seed s that the next() call stores.
SpawnDrawn(w, i, s) ==
  IF w.bases[i].resources >= UnitCost(NextValue(s))
  THEN Paid(Traced([w EXCEPT !.seed = s,
                             !.bases[i].resources = Spend(@, UnitCost(NextValue(s)))],
                   i, "spawn"),
            i, UnitType(NextValue(s)))
  ELSE [w EXCEPT !.seed = s]

\* Spawn that waits for a stockpile above 100.
SpawnLate(w, i) ==
  IF w.threw THEN w
  ELSE IF w.bases[i].resources > 100 THEN SpawnDrawn(w, i, Xorshift(w.seed))
  ELSE w

\* Lines 116-132.
Spawn(w, i) ==
  IF w.threw THEN w
  ELSE IF w.bases[i].resources > 80 THEN SpawnDrawn(w, i, Xorshift(w.seed))
  ELSE w

\* Lines 138-143.
offsets == <<[x |-> 3, y |-> 0], [x |-> -3, y |-> 0], [x |-> 0, y |-> 3],
             [x |-> 0, y |-> -3]>>

\* Lines 137-146 for the direction dir drawn: the offset is undefined when
\* dir is no index of the array, and reading offset.x then throws.
LaunchAt(w, i, dir) ==
  IF dir < 0 \/ dir > 3 THEN [w EXCEPT !.threw = TRUE]
  ELSE createUnit(w, w.bases[i].factionId,
                  w.bases[i].x * WarScale, w.bases[i].y * WarScale, "builder",
                  (w.bases[i].x + offsets[dir + 1].x) * WarScale,
                  (w.bases[i].y + offsets[dir + 1].y) * WarScale)

Launch(w, i, s) == LaunchAt([w EXCEPT !.seed = s], i, RandomInt(NextValue(s), 0, 3))

\* Lines 135-147 with the seed s that the next() call of the condition stores.
ConvoyDrawn(w, i, s) ==
  IF Exceeds(NextValue(s), 70)
  THEN Launch(Traced([w EXCEPT !.seed = s, !.bases[i].resources = Spend(@, 80)],
                     i, "convoy"),
              i, Xorshift(s))
  ELSE [w EXCEPT !.seed = s]

Convoy(w, i) ==
  IF w.threw THEN w
  ELSE IF w.bases[i].resources > 120 THEN ConvoyDrawn(w, i, Xorshift(w.seed))
  ELSE w

\* Lines 111-148: the loop over the bases.
RECURSIVE BasesLoop(_, _)
BasesLoop(w, i) ==
  IF w.threw \/ i > Len(w.bases) THEN w
  ELSE BasesLoop(Convoy(Spawn(Gather(w, i), i), i), i + 1)

\* Lines 164-169 and 172: the distance a unit covers in a tick.
moveSpeed(type) ==
  IF type = "infantry" THEN WarScale \div 2
  ELSE IF type = "tank" THEN (4 * WarScale) \div 10
  ELSE IF type = "air" THEN (8 * WarScale) \div 10
  ELSE IF type = "builder" THEN (4 * WarScale) \div 10
  ELSE WarScale \div 2

\* The square of Math.hypot(dx, dy).
HypotSq(dx, dy) == Sq(dx) + Sq(dy)

\* Lines 185 and 195: base b lies within 1.0 of unit u.
Near(b, u) == HypotSq((b.x * WarScale) - u.x, (b.y * WarScale) - u.y) < Sq(WarScale)

\* Lines 177-179: unit k moves by step towards its target, dist away.
Advance(w, k, dx, dy, dist, step) ==
  [w EXCEPT !.units[k].x = @ + RoundDiv(dx * step, dist),
            !.units[k].y = @ + RoundDiv(dy * step, dist)]

Moved(w, k, dx, dy, dist) ==
  Advance(w, k, dx, dy, dist, Min2(moveSpeed(w.units[k].type), dist))

\* Line 231: the index of a base in this.bases, 0 when it is not there.
IndexOfBase(w, id) ==
  IF \E k \in 1..Len(w.bases) : w.bases[k].id = id
  THEN CHOOSE k \in 1..Len(w.bases) : w.bases[k].id = id
  ELSE 0

\* Lines 230-240: _destroyBase.
destroyBase(w, base) ==
  IF IndexOfBase(w, base.id) > 0
  THEN pushEvent([w EXCEPT !.bases = SelectSeq(@, LAMBDA b : b.id # base.id)],
                 <<factions[base.factionId].name, " lost a base near ">>
                   \o getAreaName("city", base.x, base.y)
                   \o <<" in heavy fighting.">>)
  ELSE w

\* Razed that leaves a base with exactly 0 hit points standing.
RazedLoose(w, k) == IF w.bases[k].hp < 0 THEN destroyBase(w, w.bases[k]) ELSE w

\* Lines 199-201.
Razed(w, k) == IF w.bases[k].hp <= 0 THEN destroyBase(w, w.bases[k]) ELSE w

\* Line 198: the base at index k loses dmg hit points.
Hit(w, k, dmg) == Razed([w EXCEPT !.bases[k].hp = @ - dmg], k)

\* Damage with the amounts of the tank and of the air unit exchanged.
DamageSwapped(type) == IF type = "tank" THEN 20 ELSE IF type = "air" THEN 30 ELSE 10

\* Line 198: the damage a unit of a type deals.
Damage(type) == IF type = "tank" THEN 30 ELSE IF type = "air" THEN 20 ELSE 10

\* Lines 192-196: the enemy bases at the unit's location, by id.
EnemyBasesAt(w, u) ==
  SelectSeq([k \in 1..Len(w.bases) |-> w.bases[k].id],
            LAMBDA id : LET b == w.bases[IndexOfBase(w, id)]
                        IN  b.factionId # u.factionId /\ Near(b, u))

\* Lines 197-202: the loop over the enemy bases found.
RECURSIVE StrikeLoop(_, _, _, _)
StrikeLoop(w, ids, n, dmg) ==
  IF n > Len(ids) THEN w
  ELSE StrikeLoop(Hit(w, IndexOfBase(w, ids[n]), dmg), ids, n + 1, dmg)

\* Found that takes no notice of the bases nearby.
FoundAlways(w, u) ==
  createBase(w, u.factionId, RoundDiv(u.x, WarScale), RoundDiv(u.y, WarScale), FALSE)

\* Lines 184-189: a builder founds a base unless one lies within 1.0.
Found(w, u) ==
  IF \E k \in 1..Len(w.bases) : Near(w.bases[k], u) THEN w
  ELSE createBase(w, u.factionId, RoundDiv(u.x, WarScale), RoundDiv(u.y, WarScale),
                  FALSE)

\* Lines 207-208: the new target, unless _pickEnemyLocation threw.
Retargeted(w, k) ==
  IF w.threw THEN w
  ELSE [w EXCEPT !.units[k].tx = w.target.x * WarScale,
                 !.units[k].ty = w.target.y * WarScale]

\* Lines 206-208.
Retask(w, k) == Retargeted(pickEnemyLocation(w, w.units[k].factionId), k)

\* History: lines 182-203 led from w to after for unit k, which had reached
\* its target; the bases before and after, and the events pushed.
Reached(w, after, k) ==
  [after EXCEPT !.arrivals =
     Append(@, [unit |-> w.units[k], before |-> w.bases, after |-> after.bases,
                notified |-> SubSeq(after.notified, Len(w.notified) + 1,
                                    Len(after.notified))])]

\* Lines 182-208: unit k has reached its target.
Arrived(w, k) ==
  Retask(Reached(w,
                 IF w.units[k].type = "builder" THEN Found(w, w.units[k])
                 ELSE StrikeLoop(w, EnemyBasesAt(w, w.units[k]), 1,
                                 Damage(w.units[k].type)),
                 k),
         k)

\* Lines 172-209 for the offset (dx, dy) of the target; dist > 0.01 is
\* compared on the squares.
UnitTowards(w, k, dx, dy) ==
  IF HypotSq(dx, dy) > Sq(WarScale \div 100)
  THEN Moved(w, k, dx, dy, Isqrt(HypotSq(dx, dy)))
  ELSE Arrived(w, k)

UnitStep(w, k) ==
  UnitTowards(w, k, w.units[k].tx - w.units[k].x, w.units[k].ty - w.units[k].y)

\* Lines 171-210: the loop over the units.
RECURSIVE UnitsLoop(_, _)
UnitsLoop(w, k) ==
  IF w.threw \/ k > Len(w.units) THEN w
  ELSE UnitsLoop(UnitStep(w, k), k + 1)

\* Lines 213-224: the number of pairs in which unit i loses 5 hit points; the
\* loop moves no unit, so the pairs are those of the list it starts with.
Skirmishes(us, i) ==
  Cardinality({j \in 1..Len(us) :
                 /\ j # i
                 /\ us[j].factionId # us[i].factionId
                 /\ HypotSq(us[i].x - us[j].x, us[i].y - us[j].y)
                      < Sq((7 * WarScale) \div 10)})

Skirmished(w) ==
  [w EXCEPT !.units = [i \in 1..Len(w.units) |->
                         [w.units[i] EXCEPT !.hp = @ - (5 * Skirmishes(w.units, i))]]]

\* Cleanup that keeps a unit with no hit points left.
CleanupLoose(w) == [w EXCEPT !.units = SelectSeq(@, LAMBDA u : u.hp >= 0)]

\* Line 227.
Cleanup(w) == [w EXCEPT !.units = SelectSeq(@, LAMBDA u : u.hp > 0)]

\* Lines 212-227, which an exception in the loop over the units skips; moved
\* is the roster that the skirmish pass starts with.
AfterUnits(w) ==
  IF w.threw THEN w ELSE Cleanup(Skirmished([w EXCEPT !.moved = Some(w.units)]))

\* Lines 163-228: _updateUnits.
updateUnits(w) == AfterUnits(UnitsLoop(w, 1))

\* Line 151, which an exception in the loop over the bases skips.
AfterBases(w) == IF w.threw THEN w ELSE updateUnits(w)

\* Lines 110-151: the simulation logic of update.
tick(w) == AfterBases(BasesLoop(w, 1))

\* Line 257 for the index idx drawn: recentEvents[idx] is undefined when idx
\* is no index of the array, and reading its msg then throws.
EventAt(w, idx) ==
  IF idx < 0 \/ idx >= Len(w.recentEvents) THEN [w EXCEPT !.threw = TRUE]
  ELSE [w EXCEPT !.value = Some(w.recentEvents[idx + 1].msg)]

\* EventDrawn that leaves the seed of the generator as it was.
EventDrawnKept(w, s) ==
  EventAt(w, RandomInt(NextValue(s), 0, Len(w.recentEvents) - 1))

\* Lines 256-257 with the seed s that the next() call of int stores.
EventDrawn(w, s) ==
  EventAt([w EXCEPT !.seed = s], RandomInt(NextValue(s), 0, Len(w.recentEvents) - 1))

\* Lines 254-258: getRandomRecentEvent; what it returns is left in w.value.
getRandomRecentEvent(w) ==
  IF Len(w.recentEvents) = 0 THEN [w EXCEPT !.value = Null]
  ELSE EventDrawn(w, Xorshift(w.seed))

\* Lines 243-251: getStatusSummary; the string it returns, in parts, is left
\* in w.value.
getStatusSummary(w) ==
  LET count(f) == Cardinality({k \in 1..Len(w.bases) : w.bases[k].factionId = f})
      part(f) == <<factions[f].name, ": ", ToString(count(f)), " bases">>
  IN  [w EXCEPT !.value = Some(part(0) \o <<" | ">> \o part(1) \o <<" | ">> \o part(2))]

\* Throttled that also holds the logic back at the threshold itself.
ThrottledLoose(acc) == acc * 2 <= TimeScale

\* Line 104: timeAccumulator < 1 / 2.
Throttled(acc) == acc * 2 < TimeScale

\* Lines 254-259: pos lies strictly inside the box of c inflated by r.
InBox(pos, c, r) ==
  /\ pos.x > c.minX - r
  /\ pos.x < c.maxX + r
  /\ pos.z > c.minZ - r
  /\ pos.z < c.maxZ + r

\* PushedOut that tries the edges of the z axis before those of the x axis.
PushedOutZFirst(pos, c, r, dxMin, dxMax, dzMin, dzMax) ==
  IF dzMin <= dxMin /\ dzMin <= dxMax /\ dzMin <= dzMax
  THEN [pos EXCEPT !.z = c.minZ - r]
  ELSE IF dzMax <= dxMin /\ dzMax <= dxMax THEN [pos EXCEPT !.z = c.maxZ + r]
  ELSE IF dxMin <= dxMax THEN [pos EXCEPT !.x = c.minX - r]
  ELSE [pos EXCEPT !.x = c.maxX + r]

\* Lines 260-269: the position moved onto the edge at the least of the four
\* distances, the first of them in the order dxMin, dxMax, dzMin, dzMax.
PushedOut(pos, c, r, dxMin, dxMax, dzMin, dzMax) ==
  IF dxMin <= dxMax /\ dxMin <= dzMin /\ dxMin <= dzMax
  THEN [pos EXCEPT !.x = c.minX - r]
  ELSE IF dxMax <= dzMin /\ dxMax <= dzMax THEN [pos EXCEPT !.x = c.maxX + r]
  ELSE IF dzMin <= dzMax THEN [pos EXCEPT !.z = c.minZ - r]
  ELSE [pos EXCEPT !.z = c.maxZ + r]

\* Lines 260-269 for collider c.
Collided(pos, c, r) ==
  PushedOut(pos, c, r, Abs(pos.x - (c.minX - r)), Abs(pos.x - (c.maxX + r)),
            Abs(pos.z - (c.minZ - r)), Abs(pos.z - (c.maxZ + r)))

\* Lines 253-271: the loop over the colliders, from the n-th on.
RECURSIVE CollideLoop(_, _, _, _)
CollideLoop(list, pos, r, n) ==
  IF n > Len(list) THEN pos
  ELSE IF InBox(pos, list[n], r)
  THEN CollideLoop(list, Collided(pos, list[n], r), r, n + 1)
  ELSE CollideLoop(list, pos, r, n + 1)

\* Line 273: the floor at y = 1.6.
Floored(pos) ==
  IF pos.y < (16 * FP) \div 10 THEN [pos EXCEPT !.y = (16 * FP) \div 10] ELSE pos

\* Lines 251-274: handleCollisions on the colliders of list; radius is 0 for
\* a call without one, which stands for 0.7 (line 252).
handleCollisions(list, pos, radius) ==
  Floored(CollideLoop(list, pos, IF radius = 0 THEN (7 * FP) \div 10 ELSE radius, 1))

\* ------------------------------------------------------- InteriorsManager
\* src/interiors.js.  A record m holds an InteriorsManager while one of its
\* methods runs: its fields, the groups it added to the scene, and the value
\* the method returns.  Lengths are in units of 1/FP; a group is the serial
\* number of its creation.

\* Lines 58-64: the four walls as boxes, for a room 18 wide and 12 deep.
walls ==
  <<[minX |-> -(9 * FP), maxX |-> 9 * FP,
     minZ |-> -(6 * FP) - (FP \div 5), maxZ |-> -(6 * FP) + (FP \div 5)],
    [minX |-> -(9 * FP), maxX |-> 9 * FP,
     minZ |-> (6 * FP) - (FP \div 5), maxZ |-> (6 * FP) + (FP \div 5)],
    [minX |-> -(9 * FP) - (FP \div 5), maxX |-> -(9 * FP) + (FP \div 5),
     minZ |-> -(6 * FP), maxZ |-> 6 * FP],
    [minX |-> (9 * FP) - (FP \div 5), maxX |-> (9 * FP) + (FP \div 5),
     minZ |-> -(6 * FP), maxZ |-> 6 * FP]>>

\* Lines 70-80: the three shelves of a shop, i = -1, 0, 1.
shelves ==
  [n \in 1..3 |->
     [minX |-> (((n - 2) * 4) * FP) - ((3 * FP) \div 4),
      maxX |-> (((n - 2) * 4) * FP) + ((3 * FP) \div 4),
      minZ |-> -(2 * FP), maxZ |-> 2 * FP]]

\* Lines 85-95: the three desks of an office, i = -2, 0, 2.
desks ==
  [n \in 1..3 |->
     [minX |-> ((((2 * n) - 4) * 2) * FP) - ((6 * FP) \div 5),
      maxX |-> ((((2 * n) - 4) * 2) * FP) + ((6 * FP) \div 5),
      minZ |-> -FP - ((3 * FP) \div 5), maxZ |-> -FP + ((3 * FP) \div 5)]]

\* Lines 58-96: the colliders of the interior behind a door.
interiorColliders(door) ==
  walls \o (IF door.interiorType = "shop" THEN shelves ELSE desks)

\* Lines 102-108: the exit stands at (0, -d/2 + 0.2).
exitInfo == [x |-> 0, z |-> -(6 * FP) + (FP \div 5)]

\* Lines 112-118: the interior record; its group is new.
interiorOf(m, door) ==
  [group |-> Cardinality(m.scene) + 1,
   colliders |-> interiorColliders(door),
   exitInfo |-> exitInfo,
   doorId |-> door.id,
   interiorName |-> door.areaName]

\* interiorsByDoorId.set(id, interior).
SetInterior(map, id, interior) ==
  [k \in DOMAIN map \cup {id} |-> IF k = id THEN interior ELSE map[k]]

\* Lines 22-121: _createInteriorForDoor; the interior is left in m.created.
createInteriorForDoor(m, door) ==
  [m EXCEPT !.scene = @ \cup {interiorOf(m, door).group},
            !.interiorsByDoorId = SetInterior(@, door.id, interiorOf(m, door)),
            !.created = interiorOf(m, door)]

\* Lines 124-127: the interior of the door, from the cache or new.
Looked(m, door) ==
  IF door.id \in DOMAIN m.interiorsByDoorId
  THEN [m EXCEPT !.created = m.interiorsByDoorId[door.id]]
  ELSE createInteriorForDoor(m, door)

\* Lines 128-138: the interior becomes active; the spawn position is 2.0 in
\* front of the exit.
Entered(m) ==
  [m EXCEPT !.activeInterior = Some(m.created),
            !.value = Some([spawnPosition |-> [x |-> m.created.exitInfo.x,
                                                z |-> m.created.exitInfo.z + (2 * FP)],
                            interiorName |-> m.created.interiorName])]

\* enterInteriorFromDoor that creates an interior on every call.
enterInteriorAlways(m, door) == Entered(createInteriorForDoor(m, door))

\* Lines 123-139: enterInteriorFromDoor.
enterInteriorFromDoor(m, door) == Entered(Looked(m, door))

\* Lines 141-148: getNearbyExit.
getNearbyExit(m, pos, maxDist) ==
  IF m.activeInterior = Null THEN Null
  ELSE IF Sq(pos[1] - m.activeInterior[1].exitInfo.x)
            + Sq(pos[2] - m.activeInterior[1].exitInfo.z) <= Sq(maxDist)
       THEN Some(m.activeInterior[1].exitInfo)
       ELSE Null

\* ------------------------------------------------------------ world actions
\* What the lists hold for chunk key.
ContentOf(key) ==
  [chunk |-> GetChunk(chunks, key),
   colliders |-> SelectSeq(colliders, LAMBDA c : c.chunkKey = key),
   doors |-> SelectSeq(doors, LAMBDA d : d.chunkKey = key)]

\* gens after a call that generated seq: a first generation is recorded, a
\* later one is marked.
RecordGens(seq) ==
  LET new == {seq[n].chunk.key : n \in 1..Len(seq)}
  IN  [k \in DOMAIN gens \cup new |->
         IF k \in DOMAIN gens THEN [gens[k] EXCEPT !.again = @ \/ k \in new]
         ELSE [first |-> seq[CHOOSE n \in 1..Len(seq) : seq[n].chunk.key = k],
               again |-> FALSE]]

\* Reference positions: the first point of the chunks 0..MaxChunkX of the x
\* axis and 1..MaxChunkZ of the z axis, and the last point of chunk (-1, 0).
CoordsX == {(c * CHUNK_SIZE) * FP : c \in 0..MaxChunkX} \cup {-1}
CoordsZ == {(c * CHUNK_SIZE) * FP : c \in 1..MaxChunkZ}
Positions == (CoordsX \X {0}) \cup ({0} \X CoordsZ)

\* Distances handed to getNearbyDoor: the 2.0 of main.js:303, and 10.0.
MaxDists == {2 * FP, 10 * FP}

\* Positions handed to getNearbyDoor: the origin; just inside and on the 2.0
\* circle of each of the first MaxProbeDoors doors; and the midpoint of two of
\* them that stand on one line.
ProbeDoors == {doors[k] : k \in 1..Min2(Len(doors), MaxProbeDoors)}
DoorProbes ==
  {<<0, 0>>}
    \cup {<<d.x + o, d.z>> : d \in ProbeDoors, o \in {2 * FP - 1, 2 * FP}}
    \cup {<<(p[1].x + p[2].x) \div 2, p[1].z>> :
            p \in {q \in ProbeDoors \X ProbeDoors :
                     q[1].z = q[2].z /\ q[1].x < q[2].x /\ (q[1].x + q[2].x) % 2 = 0}}

\* Hash values handed to _getChunkType.
TypeInputs ==
  {(k * HashScale) \div TypeSamples : k \in 0..(TypeSamples - 1)}
    \cup {(t * HashScale) \div 100 + o : t \in {45, 60, 72, 84}, o \in {-1, 0, 1}}
    \cup {HashScale - 1}

NoGens == [k \in {} |-> FALSE]

NoCall == [op |-> "new", pos |-> <<0, 0>>, arg |-> 0, value |-> Null,
           evicted |-> {}, generated |-> <<>>, again |-> FALSE]

WorldInit ==
  /\ chunks = <<>>
  /\ colliders = <<>>
  /\ doors = <<>>
  /\ scene = {}
  /\ ret = NoCall
  /\ gens = NoGens
  /\ updates = 0

\* The call update(playerPos) that left st.
Updated(st, playerPos) ==
  /\ chunks' = st.chunks
  /\ colliders' = st.colliders
  /\ doors' = st.doors
  /\ scene' = st.scene
  /\ ret' = [NoCall EXCEPT !.op = "update", !.pos = playerPos,
                           !.evicted = st.evicted,
                           !.generated = [n \in 1..Len(st.generated) |->
                                            st.generated[n].chunk.key],
                           !.again = ret.op = "update" /\ ret.pos = playerPos]
  /\ gens' = RecordGens(st.generated)
  /\ updates' = updates + 1
  /\ UNCHANGED <<probe, warVars, interiorVars>>

Update == \E p \in Positions : updates < MaxUpdates /\ Updated(update(p), p)

QueryUpdate == \E p \in Positions : updates < MaxQueryUpdates /\ Updated(update(p), p)

GetAreaNameForPosition ==
  \E p \in Positions :
    /\ ret' = [NoCall EXCEPT !.op = "getAreaNameForPosition", !.pos = p,
                             !.value = Some(getAreaNameForPosition(p))]
    /\ UNCHANGED <<chunks, colliders, doors, scene, gens, updates, probe, warVars,
                   interiorVars>>

GetNearbyDoor ==
  \E p \in DoorProbes, m \in MaxDists :
    /\ ret' = [NoCall EXCEPT !.op = "getNearbyDoor", !.pos = p, !.arg = m,
                             !.value = getNearbyDoor(p, m)]
    /\ UNCHANGED <<chunks, colliders, doors, scene, gens, updates, probe, warVars,
                   interiorVars>>

GetChunkType ==
  /\ probe.type = "none"
  /\ probe' = [probe EXCEPT !.type = ChunkTypeOf(probe.r)]
  /\ UNCHANGED <<worldVars, warVars, interiorVars>>

\* Positions handed to handleCollisions: for each of the first
\* MaxProbeColliders colliders the points on, just inside and in the middle
\* of its box inflated by r, above the floor, and below it for the first.
EdgeProbes(lo, hi) == {lo, lo + 1, (lo + hi) \div 2, hi - 1, hi}

CollisionProbes(r) ==
  UNION {[x : EdgeProbes(colliders[k].minX - r, colliders[k].maxX + r),
          y : IF k = 1 THEN {0, 2 * FP} ELSE {2 * FP},
          z : EdgeProbes(colliders[k].minZ - r, colliders[k].maxZ + r)] :
           k \in 1..Min2(Len(colliders), MaxProbeColliders)}

\* The radius handed to handleCollisions: the 0.6 of character.js:231, and
\* none.
CollisionRadii == {0, (6 * FP) \div 10}

HandleCollisions ==
  \E radius \in CollisionRadii :
    \E pos \in CollisionProbes(IF radius = 0 THEN (7 * FP) \div 10 ELSE radius) :
      /\ ret' = [NoCall EXCEPT !.op = "handleCollisions", !.pos = pos,
                               !.arg = radius,
                               !.value = Some(handleCollisions(colliders, pos, radius))]
      /\ UNCHANGED <<chunks, colliders, doors, scene, gens, updates, probe, warVars,
                     interiorVars>>

\* One update call with the player at the origin.
CollisionUpdate == updates < 1 /\ Updated(update(<<0, 0>>), <<0, 0>>)

\* -------------------------------------------------------------- war actions
\* The steps of elapsed time handed to WarManager.update: 0.1 and 0.25.  For
\* these steps the sums of doubles that update forms cross 1/2 exactly when
\* the sums of hundredths do.
DtSet == {TimeScale \div 10, TimeScale \div 4}

NoWarCall == [op |-> "new", dt |-> 0, ticked |-> FALSE, threw |-> FALSE,
              notified |-> <<>>, trace |-> <<>>, tenths |-> 0, streakTicks |-> 0,
              picks |-> <<>>, removed |-> {}, razed |-> {}, value |-> Null,
              arrivals |-> <<>>, moved |-> Null]

\* The WarManager as a record w, at the start of a method.
Running ==
  [bases |-> bases, units |-> units, lastBaseId |-> lastBaseId,
   lastUnitId |-> lastUnitId, seed |-> randomSeed, recentEvents |-> recentEvents,
   notified |-> <<>>, trace |-> <<>>, picks |-> <<>>, arrivals |-> <<>>,
   moved |-> Null, target |-> [x |-> 0, y |-> 0], value |-> Null, threw |-> FALSE]

\* The fields of the object are those of w.
Stored(w) ==
  /\ bases' = w.bases
  /\ units' = w.units
  /\ lastBaseId' = w.lastBaseId
  /\ lastUnitId' = w.lastUnitId
  /\ randomSeed' = w.seed
  /\ recentEvents' = w.recentEvents

WarInit ==
  /\ bases = Constructed.bases
  /\ units = Constructed.units
  /\ lastBaseId = Constructed.lastBaseId
  /\ lastUnitId = Constructed.lastUnitId
  /\ randomSeed = Constructed.seed
  /\ recentEvents = Constructed.recentEvents
  /\ timeAccumulator = 0
  /\ ticks = 0
  /\ wret = NoWarCall
  /\ calls = 0

\* History: the number of update(0.1) calls made in a row since the
\* accumulator was zero, this call of step dt included, and the number of
\* them that ran the logic.
TenthsAfter(dt) ==
  IF dt * 10 # TimeScale THEN 0
  ELSE IF timeAccumulator = 0 THEN 1
  ELSE IF wret.tenths >= 1 THEN wret.tenths + 1
  ELSE 0

StreakTicksAfter(dt, ticked) ==
  IF TenthsAfter(dt) = 0 THEN 0
  ELSE (IF TenthsAfter(dt) = 1 THEN 0 ELSE wret.streakTicks)
         + (IF ticked THEN 1 ELSE 0)

\* Lines 103-107: an update call that returns before the logic.
Accumulated(dt) ==
  /\ timeAccumulator' = timeAccumulator + dt
  /\ wret' = [NoWarCall EXCEPT !.op = "update", !.dt = dt,
                               !.tenths = TenthsAfter(dt),
                               !.streakTicks = StreakTicksAfter(dt, FALSE)]
  /\ UNCHANGED <<bases, units, lastBaseId, lastUnitId, randomSeed, recentEvents,
                 ticks>>

\* The ids of the entries of a list of bases or of units.
IdsOf(list) == {list[k].id : k \in 1..Len(list)}

\* Ticked that carries the excess over the period into the next call.
TickedCarry(w, dt) ==
  /\ timeAccumulator' = (timeAccumulator + dt) - (TimeScale \div 2)
  /\ Stored(w)
  /\ ticks' = ticks + 1
  /\ wret' = [NoWarCall EXCEPT !.op = "update", !.dt = dt, !.ticked = TRUE,
                               !.threw = w.threw, !.notified = w.notified,
                               !.trace = w.trace, !.picks = w.picks,
                               !.arrivals = w.arrivals, !.moved = w.moved,
                               !.removed = IdsOf(units) \ IdsOf(w.units),
                               !.razed = IdsOf(bases) \ IdsOf(w.bases),
                               !.tenths = TenthsAfter(dt),
                               !.streakTicks = StreakTicksAfter(dt, TRUE)]

\* Lines 108-151: an update call whose logic left w; removed and razed are
\* the units and the bases that the call took off the lists.
Ticked(w, dt) ==
  /\ timeAccumulator' = 0
  /\ Stored(w)
  /\ ticks' = ticks + 1
  /\ wret' = [NoWarCall EXCEPT !.op = "update", !.dt = dt, !.ticked = TRUE,
                               !.threw = w.threw, !.notified = w.notified,
                               !.trace = w.trace, !.picks = w.picks,
                               !.arrivals = w.arrivals, !.moved = w.moved,
                               !.removed = IdsOf(units) \ IdsOf(w.units),
                               !.razed = IdsOf(bases) \ IdsOf(w.bases),
                               !.tenths = TenthsAfter(dt),
                               !.streakTicks = StreakTicksAfter(dt, TRUE)]

\* WarManager.update(dt), lines 102-152.
WarUpdate ==
  \E dt \in DtSet :
    /\ ticks < MaxTicks
    /\ IF Throttled(timeAccumulator + dt) THEN Accumulated(dt)
       ELSE Ticked(tick(Running), dt)
    /\ UNCHANGED <<worldVars, probe, calls, interiorVars>>

\* The steps of a frame loop that stalls: none, 0.25, 0.3, 0.5 and 2 seconds.
LongDts == {0, TimeScale \div 4, (3 * TimeScale) \div 10, TimeScale \div 2, 2 * TimeScale}

\* WarManager.update(dt), lines 102-152, for those steps.
LongUpdate ==
  \E dt \in LongDts :
    /\ ticks < MaxTicks
    /\ IF Throttled(timeAccumulator + dt) THEN Accumulated(dt)
       ELSE Ticked(tick(Running), dt)
    /\ UNCHANGED <<worldVars, probe, calls, interiorVars>>

\* The fields of the WarManager and the history of its update calls.
warState == <<bases, units, lastBaseId, lastUnitId, timeAccumulator, recentEvents,
              randomSeed, ticks, wret>>

\* The messages handed to _pushEvent: the loss of the first and of the
\* second starting base.
EventMessages ==
  {<<factions[k - 1].name, " lost a base near ">>
     \o getAreaName("city", starts[k].x, starts[k].y) \o <<" in heavy fighting.">> :
     k \in 1..2}

\* WarManager._pushEvent(msg), lines 96-100.
PushEvent ==
  \E msg \in EventMessages :
    /\ calls < MaxPushes
    /\ Stored(pushEvent(Running, msg))
    /\ wret' = [NoWarCall EXCEPT !.op = "pushEvent",
                                 !.notified = pushEvent(Running, msg).notified]
    /\ calls' = calls + 1
    /\ UNCHANGED <<worldVars, probe, interiorVars, timeAccumulator, ticks>>

\* WarManager.getRandomRecentEvent(), lines 254-258.
GetRandomRecentEvent ==
  /\ calls < MaxSamples
  /\ Stored(getRandomRecentEvent(Running))
  /\ wret' = [NoWarCall EXCEPT !.op = "getRandomRecentEvent",
                               !.threw = getRandomRecentEvent(Running).threw,
                               !.value = getRandomRecentEvent(Running).value]
  /\ calls' = calls + 1
  /\ UNCHANGED <<worldVars, probe, interiorVars, timeAccumulator, ticks>>

\* WarManager.getStatusSummary(), lines 243-251.
GetStatusSummary ==
  /\ Stored(getStatusSummary(Running))
  /\ wret' = [NoWarCall EXCEPT !.op = "getStatusSummary",
                               !.value = getStatusSummary(Running).value]
  /\ UNCHANGED <<worldVars, probe, interiorVars, timeAccumulator, ticks, calls>>

\* --------------------------------------------------------- interior actions
NoInteriors == [k \in {} |-> Null]

NoInteriorCall == [op |-> "new", door |-> Null, pos |-> <<0, 0>>, value |-> Null,
                   cached |-> FALSE]

InteriorInit ==
  /\ interiorsByDoorId = NoInteriors
  /\ activeInterior = Null
  /\ interiorScene = {}
  /\ iret = NoInteriorCall

\* The InteriorsManager as a record m, at the start of a method.
Serving ==
  [interiorsByDoorId |-> interiorsByDoorId, activeInterior |-> activeInterior,
   scene |-> interiorScene, created |-> Null, value |-> Null]

\* The doors handed to enterInteriorFromDoor: the first MaxEnterDoors doors
\* of the list, which main.js takes from getNearbyDoor.
EnterDoors == {doors[k] : k \in 1..Min2(Len(doors), MaxEnterDoors)}

\* The call enterInteriorFromDoor(door) that left m; cached tells whether the
\* door id had an interior before the call.
EnteredDoor(m, door) ==
  /\ interiorsByDoorId' = m.interiorsByDoorId
  /\ activeInterior' = m.activeInterior
  /\ interiorScene' = m.scene
  /\ iret' = [NoInteriorCall EXCEPT !.op = "enterInteriorFromDoor",
                                    !.door = Some(door), !.value = m.value,
                                    !.cached = door.id \in DOMAIN interiorsByDoorId]
  /\ calls' = calls + 1
  /\ UNCHANGED <<worldVars, probe, warState>>

EnterInteriorFromDoor ==
  \E door \in EnterDoors :
    calls < MaxEnters /\ EnteredDoor(enterInteriorFromDoor(Serving, door), door)

\* Positions handed to getNearbyExit: the exit, and the points 2.0 and just
\* over 2.0 away from it; the distance is the 2.0 of main.js:282.
ExitProbes == {<<exitInfo.x + o, exitInfo.z>> : o \in {0, 2 * FP, (2 * FP) + 1}}

GetNearbyExit ==
  \E pos \in ExitProbes :
    /\ iret' = [NoInteriorCall EXCEPT !.op = "getNearbyExit", !.pos = pos,
                                      !.value = getNearbyExit(Serving, pos, 2 * FP)]
    /\ UNCHANGED <<worldVars, probe, warVars, interiorsByDoorId, activeInterior,
                   interiorScene>>

\* The player stands in chunk (0, 0) or MaxChunkX chunks to the east of it,
\* from where chunk (0, 0) and its neighbours are evicted.
InteriorPositions == {<<0, 0>>, <<(MaxChunkX * CHUNK_SIZE) * FP, 0>>}

InteriorUpdate ==
  \E p \in InteriorPositions : updates < MaxUpdates /\ Updated(update(p), p)

\* ----------------------------------------------------------- specifications
Init == WorldInit /\ WarInit /\ InteriorInit /\ probe = [r |-> 0, type |-> "none"]

Next == Update

\* The world under update calls alone.
Spec == Init /\ [][Next]_vars

QueryNext == QueryUpdate \/ GetAreaNameForPosition \/ GetNearbyDoor

\* The world under update calls and queries.
QuerySpec == Init /\ [][QueryNext]_vars

TypeInit ==
  WorldInit /\ WarInit /\ InteriorInit /\ probe \in [r : TypeInputs, type : {"none"}]

TypeNext == GetChunkType

\* _getChunkType on a hash value drawn at the start.
TypeSpec == TypeInit /\ [][TypeNext]_vars

WarNext == WarUpdate

\* The war simulation under update calls.
WarSpec == Init /\ [][WarNext]_vars

\* A fresh WarManager in which the stockpile of one base was set to 200.
ScenarioInit ==
  /\ WorldInit
  /\ InteriorInit
  /\ probe = [r |-> 0, type |-> "none"]
  /\ \E i \in 1..Len(Constructed.bases) :
       bases = [Constructed.bases EXCEPT ![i].resources = 200]
  /\ units = Constructed.units
  /\ lastBaseId = Constructed.lastBaseId
  /\ lastUnitId = Constructed.lastUnitId
  /\ randomSeed = Constructed.seed
  /\ recentEvents = Constructed.recentEvents
  /\ timeAccumulator = 0
  /\ ticks = 0
  /\ wret = NoWarCall
  /\ calls = 0

\* The targets of a unit of a type: for a builder the base's position plus
\* an offset (lines 138-146), for the others the position of an enemy base.
ArmyTargets(i, type) ==
  IF type = "builder"
  THEN {[x |-> starts[i].x + offsets[d].x, y |-> starts[i].y + offsets[d].y] :
          d \in 1..MaxArmyTargets}
  ELSE {[x |-> starts[e].x, y |-> starts[e].y] :
          e \in {j \in 1..3 : j # i /\ j <= MaxArmyTargets + 1}}

\* A fresh WarManager for which _createUnit was called once: a unit of any
\* type at the base of its faction.
ArmyInit ==
  /\ WorldInit
  /\ InteriorInit
  /\ probe = [r |-> 0, type |-> "none"]
  /\ bases = Constructed.bases
  /\ \E i \in 1..3, type \in {"infantry", "tank", "air", "builder"} :
       \E t \in ArmyTargets(i, type) :
         units = createUnit(Constructed, i - 1, starts[i].x * WarScale,
                            starts[i].y * WarScale, type, t.x * WarScale,
                            t.y * WarScale).units
  /\ lastBaseId = Constructed.lastBaseId
  /\ lastUnitId = 1
  /\ randomSeed = Constructed.seed
  /\ recentEvents = Constructed.recentEvents
  /\ timeAccumulator = 0
  /\ ticks = 0
  /\ wret = NoWarCall
  /\ calls = 0

ArmyNext == WarUpdate

\* The war under update calls, from a roster of one unit.
ArmySpec == ArmyInit /\ [][ArmyNext]_vars

ScenarioNext == WarUpdate

\* The war under update calls, from a stockpile of 200.
ScenarioSpec == ScenarioInit /\ [][ScenarioNext]_vars

CollisionNext == CollisionUpdate \/ HandleCollisions

\* The world after one update call, under handleCollisions calls.
CollisionSpec == Init /\ [][CollisionNext]_vars

RingNext == PushEvent

\* The event ring under direct _pushEvent calls.
RingSpec == Init /\ [][RingNext]_vars

EventNext == WarUpdate \/ GetRandomRecentEvent

\* The war under update calls and getRandomRecentEvent calls.
EventSpec == Init /\ [][EventNext]_vars

LongNext == LongUpdate

\* The war under update calls of steps up to 2 seconds.
LongSpec == Init /\ [][LongNext]_vars

StatusNext == WarUpdate \/ GetRandomRecentEvent \/ GetStatusSummary

\* The war under update calls and calls of its two accessors.
StatusSpec == Init /\ [][StatusNext]_vars

InteriorNext == InteriorUpdate \/ EnterInteriorFromDoor \/ GetNearbyExit

\* The world under update calls, with doors entered and exits looked for.
InteriorSpec == Init /\ [][InteriorNext]_vars

\* ------------------------------------------------------------------- claims
\* The reference chunk of the last update call.
RefX == ChunkCoord(ret.pos[1])
RefZ == ChunkCoord(ret.pos[2])

\* C1. Eviction correctness: right after update(p) no loaded chunk is more than
\* activeRadius + 1 chunks from the reference chunk on either axis, and no
\* collider or door carries the key of a chunk that call evicted.
C1_Eviction ==
  ret.op = "update" =>
    /\ \A n \in 1..Len(chunks) :
         /\ Abs(chunks[n].cx - RefX) <= activeRadius + 1
         /\ Abs(chunks[n].cz - RefZ) <= activeRadius + 1
    /\ \A k \in 1..Len(colliders) : colliders[k].chunkKey \notin ret.evicted
    /\ \A k \in 1..Len(doors) : doors[k].chunkKey \notin ret.evicted

\* An update call has evicted a chunk that had colliders and doors.
C1_Witness ==
  /\ ret.op = "update"
  /\ \E k \in ret.evicted :
       gens[k].first.colliders # <<>> /\ gens[k].first.doors # <<>>

\* C2. Active-window coverage: right after update(p) every chunk within
\* activeRadius of the reference chunk is in the Map, whatever was loaded.
C2_Coverage ==
  ret.op = "update" =>
    \A x \in (RefX - activeRadius)..(RefX + activeRadius),
       z \in (RefZ - activeRadius)..(RefZ + activeRadius) :
      HasChunk(chunks, chunkKey(x, z))

\* An update call after a jump: it found none of its window loaded, generated
\* all of it and evicted chunks of the previous window.
C2_Witness ==
  /\ ret.op = "update"
  /\ updates >= 2
  /\ Len(ret.generated) = WindowSide * WindowSide
  /\ ret.evicted # {}

\* C3. Idempotent update: an update call with the position of the update call
\* just before it generates nothing, evicts nothing and leaves the Map and
\* the two lists as they were.
C3_Idempotent ==
  [][(updates' = updates + 1 /\ ret'.again) =>
       /\ chunks' = chunks
       /\ colliders' = colliders
       /\ doors' = doors
       /\ ret'.generated = <<>>
       /\ ret'.evicted = {}]_vars

\* update has been called twice in a row with one position, with colliders and
\* doors loaded.
C3_Witness == ret.op = "update" /\ ret.again /\ colliders # <<>> /\ doors # <<>>

\* Lines 132-140: the lots of a chunk that are not left empty.
PlacedLots(chunk) ==
  IF chunk.type = "city" \/ chunk.type = "suburb"
  THEN LET n == IF chunk.type = "city" THEN 4 ELSE 3
           seedBase == chunk.cx * 92821 + chunk.cz * 68917 + globalSeed * 3
       IN  {l \in (0..(n - 1)) \X (0..(n - 1)) :
              ~(seededRandom(seedBase + l[1] * 17, seedBase + l[2] * 37, 99) * 10
                  < 2 * HashScale)}
  ELSE {}

\* C4. Ownership: every collider and door carries the key of a loaded chunk,
\* and each placed lot of a loaded chunk has exactly one collider and exactly
\* one door in the lists (and an empty lot, or a chunk without lots, none).
C4_Ownership ==
  /\ \A k \in 1..Len(colliders) : HasChunk(chunks, colliders[k].chunkKey)
  /\ \A k \in 1..Len(doors) : HasChunk(chunks, doors[k].chunkKey)
  /\ \A n \in 1..Len(chunks) :
       /\ Cardinality({k \in 1..Len(colliders) : colliders[k].chunkKey = chunks[n].key})
            = Cardinality(PlacedLots(chunks[n]))
       /\ Cardinality({k \in 1..Len(doors) : doors[k].chunkKey = chunks[n].key})
            = Cardinality(PlacedLots(chunks[n]))
       /\ \A l \in PlacedLots(chunks[n]) :
            Cardinality({k \in 1..Len(doors) :
                           doors[k].id = <<chunks[n].cx, chunks[n].cz, l[1], l[2]>>}) = 1

\* An update call has evicted chunks and left colliders and doors loaded.
C4_Witness ==
  ret.op = "update" /\ ret.evicted # {} /\ colliders # <<>> /\ doors # <<>>

\* C5. Regeneration determinism: a chunk that was generated again holds the
\* type, area name, colliders and doors its first generation produced.
C5_Regeneration ==
  \A n \in 1..Len(chunks) :
    gens[chunks[n].key].again => ContentOf(chunks[n].key) = gens[chunks[n].key].first

\* A chunk with doors is loaded for the second time.
C5_Witness ==
  \E n \in 1..Len(chunks) :
    gens[chunks[n].key].again /\ gens[chunks[n].key].first.doors # <<>>

\* C6. Threshold exactness: city iff r < 0.45, suburb iff 0.45 <= r < 0.60,
\* park iff 0.60 <= r < 0.72, highway iff 0.72 <= r < 0.84, wasteland iff
\* r >= 0.84; 0.44999 is city and 0.45001 suburb (HashScale is 10^5).
C6_Thresholds ==
  probe.type # "none" =>
    /\ probe.type \in {"city", "suburb", "park", "highway", "wasteland"}
    /\ (probe.type = "city") = (probe.r * 100 < 45 * HashScale)
    /\ (probe.type = "suburb")
         = (45 * HashScale <= probe.r * 100 /\ probe.r * 100 < 60 * HashScale)
    /\ (probe.type = "park")
         = (60 * HashScale <= probe.r * 100 /\ probe.r * 100 < 72 * HashScale)
    /\ (probe.type = "highway")
         = (72 * HashScale <= probe.r * 100 /\ probe.r * 100 < 84 * HashScale)
    /\ (probe.type = "wasteland") = (84 * HashScale <= probe.r * 100)
    /\ (probe.r = 44999 => probe.type = "city")
    /\ (probe.r = 45001 => probe.type = "suburb")

\* The hash value 0.44999 has been classified, as city.
C6_Witness == probe.r = 44999 /\ probe.type = "city"

\* C7. Area-name agreement and read-only fallback: the name returned for a
\* position is the name computed from the type and coordinates of its chunk,
\* loaded or not (the stored names are the computed ones), and the call
\* leaves the Map and the two lists unchanged.
C7_AreaName ==
  /\ [](/\ \A n \in 1..Len(chunks) :
            chunks[n].areaName
              = getAreaName(getChunkType(chunks[n].cx, chunks[n].cz),
                            chunks[n].cx, chunks[n].cz)
        /\ ret.op = "getAreaNameForPosition" =>
             ret.value = Some(getAreaName(getChunkType(RefX, RefZ), RefX, RefZ)))
  /\ [][ret'.op = "getAreaNameForPosition" =>
          UNCHANGED <<chunks, colliders, doors>>]_vars

\* The name of a loaded chunk off the diagonal has been asked for.
C7_Witness ==
  /\ ret.op = "getAreaNameForPosition"
  /\ HasChunk(chunks, chunkKey(RefX, RefZ))
  /\ RefX # RefZ

\* The doors nearer to ret.pos than ret.arg (Within: or at that distance).
Inside == {k \in 1..Len(doors) : DistSq(ret.pos, doors[k]) < ret.arg * ret.arg}
Within == {k \in 1..Len(doors) : DistSq(ret.pos, doors[k]) <= ret.arg * ret.arg}

\* The first door of the list among the nearest of the doors S.
FirstNearest(S) ==
  doors[CHOOSE k \in S :
          \A j \in S :
            \/ DistSq(ret.pos, doors[k]) < DistSq(ret.pos, doors[j])
            \/ DistSq(ret.pos, doors[k]) = DistSq(ret.pos, doors[j]) /\ k <= j]

\* C8 as stated. Nearest-door query: the result is the first of the nearest
\* doors among those at a distance of at most maxDistance, or null when no
\* door is within maxDistance.
C8_AtMost ==
  ret.op = "getNearbyDoor" =>
    ret.value = IF Within = {} THEN Null ELSE Some(FirstNearest(Within))

\* C8 as amended. Nearest-door query: the result is the first of the nearest
\* doors among those at a distance strictly less than maxDistance, or null
\* when no door is that near; the call changes no state.
C8_Nearest ==
  /\ [](ret.op = "getNearbyDoor" =>
          ret.value = IF Inside = {} THEN Null ELSE Some(FirstNearest(Inside)))
  /\ [][ret'.op = "getNearbyDoor" => UNCHANGED <<chunks, colliders, doors>>]_vars

\* A query has returned the earlier of two doors at the same, least distance.
C8_Witness ==
  /\ ret.op = "getNearbyDoor"
  /\ ret.value # Null
  /\ \E k \in Inside, j \in Inside :
       /\ k < j
       /\ ret.value = Some(doors[k])
       /\ DistSq(ret.pos, doors[j]) = DistSq(ret.pos, doors[k])

\* C9. Tick throttling: from a zero accumulator, five update(0.1) calls in a
\* row run the simulation logic exactly once, on the fifth call; and an update
\* call that leaves the accumulated time below 0.5 changes the accumulator
\* only: bases, units, events, id counters and generator state stay.
C9_Throttling ==
  /\ [](wret.op = "update" =>
          /\ wret.tenths <= 5
          /\ wret.tenths \in 1..4 => ~wret.ticked /\ wret.streakTicks = 0
          /\ wret.tenths = 5 => wret.ticked /\ wret.streakTicks = 1)
  /\ [][(timeAccumulator + wret'.dt) * 2 < TimeScale =>
          /\ timeAccumulator' = timeAccumulator + wret'.dt
          /\ ~wret'.ticked
          /\ ticks' = ticks
          /\ UNCHANGED <<bases, units, recentEvents, lastBaseId, lastUnitId,
                         randomSeed>>]_vars

\* The fifth update(0.1) call in a row since a zero accumulator has returned,
\* with bases that had gathered before.
C9_Witness ==
  wret.op = "update" /\ wret.tenths = 5 /\ wret.ticked /\ ticks >= 2

\* C10. Resource conservation: the stockpile of every base is at least 0 in
\* every state update leaves and at every point inside a tick: after the
\* gather, after the unit-spawn deduction and after the convoy deduction.
C10_Conservation ==
  /\ \A k \in 1..Len(bases) : bases[k].resources >= 0
  /\ \A n \in 1..Len(wret.trace) : wret.trace[n].resources >= 0

\* A tick has gathered and has deducted the cost of a unit.
C10_Witness ==
  /\ wret.op = "update"
  /\ \E n \in 1..Len(wret.trace) : wret.trace[n].point = "gather"
  /\ \E n \in 1..Len(wret.trace) : wret.trace[n].point = "spawn"

\* C11 (scenario B): a fresh WarManager has exactly three bases, one per
\* faction, at (0,0), (6,-4) and (-5,5), each with 100 hit points and a
\* stockpile of 50; after the first executed tick every stockpile lies in
\* [55, 60) and the unit roster is empty.
C11_Fresh ==
  /\ Len(bases) = 3
  /\ \A k \in 1..3 :
       /\ bases[k].factionId = k - 1
       /\ bases[k].x = starts[k].x /\ bases[k].y = starts[k].y
       /\ bases[k].hp = 100
       /\ bases[k].resources = 50
  /\ <<starts[1].x, starts[1].y>> = <<0, 0>>
  /\ <<starts[2].x, starts[2].y>> = <<6, -4>>
  /\ <<starts[3].x, starts[3].y>> = <<-5, 5>>

C11_ScenarioB ==
  /\ ticks = 0 => C11_Fresh
  /\ ticks = 1 =>
       /\ \A k \in 1..Len(bases) : bases[k].resources >= 55 /\ bases[k].resources < 60
       /\ units = <<>>

\* C12 (unit lifecycle): after every update call every unit of the roster has
\* more than 0 hit points, so a unit brought to 0 or less during the tick is
\* gone when the call returns; a unit the call removed is not in the roster,
\* and a unit that enters the roster carries an id above every id handed out
\* before, so a removed unit never comes back.
C12_Lifecycle ==
  [][/\ \A k \in 1..Len(units') : units'[k].hp > 0
     /\ wret'.removed \cap IdsOf(units') = {}
     /\ \A k \in 1..Len(units') :
          /\ units'[k].id <= lastUnitId'
          /\ units'[k].id \in IdsOf(units) \/ units'[k].id > lastUnitId]_vars

\* A tick whose cleanup removed a unit while others stayed.
C12_Witness ==
  /\ wret.ticked
  /\ wret.removed # {}
  /\ units # <<>>

\* The event that reports the loss of base b.
C13_Lost(b) ==
  <<factions[b.factionId].name, " lost a base near ">>
    \o getAreaName("city", b.x, b.y) \o <<" in heavy fighting.">>

\* C13 (base destruction): every base of the list has 1..100 hit points after
\* every update call, so a base brought to 0 or less is removed in the tick
\* that did it; the call emits exactly one destruction event for each base
\* it removed and none for any other base, the events head the ring, and a
\* base that left the list never returns to it, so it is neither damaged nor
\* reported again.
C13_Destruction ==
  [][/\ \A k \in 1..Len(bases') : bases'[k].hp >= 1 /\ bases'[k].hp <= 100
     /\ wret'.razed \cap IdsOf(bases') = {}
     /\ \A k \in 1..Len(bases) :
          Cardinality({n \in 1..Len(wret'.notified) :
                        wret'.notified[n] = C13_Lost(bases[k])})
            = IF bases[k].id \in wret'.razed THEN 1 ELSE 0
     /\ Cardinality({n \in 1..Len(wret'.notified) :
                      wret'.notified[n][2] = " lost a base near "})
          = Cardinality(wret'.razed)
     /\ Len(recentEvents') = Len(recentEvents) + Len(wret'.notified)
     /\ \A n \in 1..Len(wret'.notified) :
          recentEvents'[n].msg = wret'.notified[(Len(wret'.notified) + 1) - n]
     /\ \A k \in 1..Len(bases') :
          /\ bases'[k].id \in IdsOf(bases) \/ bases'[k].id > lastBaseId
          /\ \A j \in 1..Len(bases) :
               bases[j].id = bases'[k].id => bases'[k].hp <= bases[j].hp]_vars

\* A tick that destroyed a base and left others standing.
C13_Witness ==
  /\ wret.ticked
  /\ wret.razed # {}
  /\ bases # <<>>
  /\ recentEvents # <<>>

\* C14 (bounded event ring): the ring never holds more than 10 entries; a
\* push puts the new event first and keeps the entries it found behind it in
\* their order, all of them while the ring held fewer than 10 and all but
\* the oldest when it held 10.
C14_Ring ==
  [][/\ Len(recentEvents') <= 10
     /\ wret'.op = "pushEvent" =>
          /\ recentEvents'[1].msg = wret'.notified[1]
          /\ Tail(recentEvents') =
               IF Len(recentEvents) = 10 THEN SubSeq(recentEvents, 1, 9)
               ELSE recentEvents]_vars

\* A push onto a full ring whose newest and oldest entries differed.
C14_Witness ==
  /\ wret.op = "pushEvent"
  /\ calls > 10
  /\ Len(recentEvents) = 10
  /\ recentEvents[2].msg # recentEvents[10].msg

\* C15 (zero-enemy fallback): a target selection made while the faction has no
\* enemy base left returns the origin (0, 0) without failing and without a
\* random draw; every other target selection returns the position of a base
\* of another faction that is in the list at that moment.
C15_Fallback ==
  \A n \in 1..Len(wret.picks) :
    IF wret.picks[n].enemies = {}
    THEN /\ ~wret.picks[n].threw
         /\ ~wret.picks[n].drew
         /\ wret.picks[n].target = [x |-> 0, y |-> 0]
    ELSE /\ ~wret.picks[n].threw
         /\ wret.picks[n].target \in wret.picks[n].enemies

\* C16 (event accessor): getRandomRecentEvent returns null when the ring is
\* empty and otherwise the message of an entry of the ring, and it leaves the
\* bases, the units, the ring, the id counters and the time accumulator as
\* they were.
C16_Accessor ==
  [][wret'.op = "getRandomRecentEvent" =>
       /\ ~wret'.threw
       /\ IF recentEvents = <<>> THEN wret'.value = Null
          ELSE \E n \in 1..Len(recentEvents) :
                 wret'.value = Some(recentEvents[n].msg)
       /\ UNCHANGED <<bases, units, recentEvents, lastBaseId, lastUnitId,
                      timeAccumulator>>]_vars

\* The stockpiles recorded for base id at a point of the call, in order.
C17_At(id, point) ==
  SelectSeq(wret'.trace, LAMBDA e : e.base = id /\ e.point = point)

\* The units of a faction that the call created and that are in the roster.
C17_New(factionId) ==
  {k \in 1..Len(units') :
     units'[k].id > lastUnitId /\ units'[k].factionId = factionId}

\* C17 (scenario C): a tick that starts with a base at stockpile 200 deducts
\* one unit cost (25, 35 or 40) from what the base holds after gathering and
\* spawns one combat unit of the base's faction at the base; a convoy, if
\* launched, deducts 80 from the stockpile left by that deduction and spawns
\* one builder; the stockpile stays at 0 or above.
C17_ScenarioC ==
  [][wret'.ticked =>
       \A k \in 1..Len(bases) :
         bases[k].resources = 200 =>
           /\ Len(C17_At(bases[k].id, "gather")) = 1
           /\ Len(C17_At(bases[k].id, "spawn")) = 1
           /\ C17_At(bases[k].id, "gather")[1].resources
                  - C17_At(bases[k].id, "spawn")[1].resources \in {25, 35, 40}
           /\ Cardinality({u \in C17_New(bases[k].factionId) :
                             /\ units'[u].type # "builder"
                             /\ units'[u].hp \in {20, 30, 40}}) = 1
           /\ Len(C17_At(bases[k].id, "convoy")) <= 1
           /\ Len(C17_At(bases[k].id, "convoy")) = 1 =>
                C17_At(bases[k].id, "convoy")[1].resources
                  = C17_At(bases[k].id, "spawn")[1].resources - 80
           /\ Cardinality({u \in C17_New(bases[k].factionId) :
                             units'[u].type = "builder"})
                = Len(C17_At(bases[k].id, "convoy"))
           /\ \A n \in 1..Len(wret'.trace) : wret'.trace[n].resources >= 0]_vars

C19_Gathered(id) ==
  {wret'.trace[n].resources : n \in {j \in 1..Len(wret'.trace) :
     wret'.trace[j].base = id /\ wret'.trace[j].point = "gather"}}

\* The deductions for a unit that the call made from base id.
C19_Costs(id) ==
  {n \in 2..Len(wret'.trace) :
     /\ wret'.trace[n].base = id
     /\ wret'.trace[n].point = "spawn"}

\* The combat units of the roster that the call created for a faction.
C19_Units(factionId) ==
  {k \in 1..Len(units') :
     /\ units'[k].id > lastUnitId
     /\ units'[k].factionId = factionId
     /\ units'[k].type # "builder"}

\* C19 (unit spawn step): in a tick a base spawns a combat unit if and only
\* if its stockpile after gathering exceeds 80; the cost 25, 35 or 40 of the
\* unit's type is deducted exactly once, the unit has the base's faction and
\* the hit points 20, 30 or 40 of its type, and a base spawns at most one
\* combat unit and at most one builder in a tick.
C19_SpawnStep ==
  [][wret'.ticked =>
       \A k \in 1..Len(bases) :
         \A g \in C19_Gathered(bases[k].id) :
           /\ Cardinality(C19_Units(bases[k].factionId)) = IF g > 80 THEN 1 ELSE 0
           /\ Cardinality(C19_Costs(bases[k].id)) = IF g > 80 THEN 1 ELSE 0
           /\ Cardinality({u \in 1..Len(units') :
                             /\ units'[u].id > lastUnitId
                             /\ units'[u].factionId = bases[k].factionId
                             /\ units'[u].type = "builder"}) <= 1
           /\ \A n \in C19_Costs(bases[k].id) :
                \A u \in C19_Units(bases[k].factionId) :
                  <<units'[u].type, g - wret'.trace[n].resources, units'[u].hp>>
                    \in {<<"infantry", 25, 20>>, <<"air", 35, 30>>, <<"tank", 40, 40>>}]_vars

\* The distance of a unit to its target, in units of 1/WarScale.
C20_Dist(u) == Isqrt(HypotSq(u.tx - u.x, u.ty - u.y))

\* C20 (movement without overshoot): in each executed tick a unit of the
\* roster that is further than 0.01 from its target and survives the tick
\* keeps its target and ends the tick min(speed, d) nearer to it (to within
\* the rounding of the positions), with speed 0.5 for infantry, 0.4 for tanks
\* and builders and 0.8 for air units; so it never passes the target and
\* reaches it within ceil(d / speed) ticks.
C20_Movement ==
  [][wret'.ticked =>
       \A k \in 1..Len(units) :
         \A j \in 1..Len(units') :
           (units'[j].id = units[k].id /\ C20_Dist(units[k]) > WarScale \div 100) =>
             /\ units'[j].tx = units[k].tx
             /\ units'[j].ty = units[k].ty
             /\ Abs(C20_Dist(units'[j])
                      - (C20_Dist(units[k])
                           - Min2(moveSpeed(units[k].type), C20_Dist(units[k])))) <= 2]_vars

\* A base of the list lies less than 1.0 from unit u.
C21_Blocked(list, u) ==
  \E n \in 1..Len(list) :
    Sq((list[n].x * WarScale) - u.x) + Sq((list[n].y * WarScale) - u.y)
      < Sq(WarScale)

\* The base that unit u founds, but for its id.
C21_Base(u, id) ==
  [id |-> id, factionId |-> u.factionId, x |-> RoundDiv(u.x, WarScale),
   y |-> RoundDiv(u.y, WarScale), hp |-> 100, resources |-> 50]

\* C21 (builder founding): a builder that has reached its target founds a
\* base if and only if no base of any faction lies within 1.0 of it; the new
\* base is of the builder's faction, stands at the builder's rounded
\* position, has 100 hit points, a stockpile of 50 and a new id, and exactly
\* one event reports it; a blocked founding leaves the bases as they were
\* and emits no event.
C21_Founding ==
  \A n \in 1..Len(wret.arrivals) :
    wret.arrivals[n].unit.type = "builder" =>
      IF C21_Blocked(wret.arrivals[n].before, wret.arrivals[n].unit)
      THEN /\ wret.arrivals[n].after = wret.arrivals[n].before
           /\ wret.arrivals[n].notified = <<>>
      ELSE /\ \E id \in 1..lastBaseId :
                /\ id \notin IdsOf(wret.arrivals[n].before)
                /\ wret.arrivals[n].after =
                     Append(wret.arrivals[n].before,
                            C21_Base(wret.arrivals[n].unit, id))
           /\ wret.arrivals[n].notified =
                <<<<factions[wret.arrivals[n].unit.factionId].name,
                    " established a new base near ">>
                    \o getAreaName("city",
                                    RoundDiv(wret.arrivals[n].unit.x, WarScale),
                                    RoundDiv(wret.arrivals[n].unit.y, WarScale))
                    \o <<".">>>>

\* A tick in which a builder was kept from founding, after a base was founded.
C21_Witness ==
  /\ lastBaseId > 3
  /\ \E n \in 1..Len(wret.arrivals) :
       /\ wret.arrivals[n].unit.type = "builder"
       /\ wret.arrivals[n].after = wret.arrivals[n].before

\* The ids and hit points of a list of bases, in order.
C22_Hp(list) == [n \in 1..Len(list) |-> <<list[n].id, list[n].hp>>]

\* What unit u, having reached its target, takes from base b.
C22_Loss(u, b) ==
  IF /\ u.type # "builder"
     /\ b.factionId # u.factionId
     /\ Sq((b.x * WarScale) - u.x) + Sq((b.y * WarScale) - u.y) < Sq(WarScale)
  THEN (IF u.type = "tank" THEN 30 ELSE IF u.type = "air" THEN 20 ELSE 10)
  ELSE 0

C23_Moved == IF wret'.moved = Null THEN units' ELSE wret'.moved[1]

\* The pairs of unit i of roster m with a unit of another faction less than
\* 0.7 away.
C23_Pairs(m, i) ==
  Cardinality({j \in 1..Len(m) :
                 /\ j # i
                 /\ m[j].factionId # m[i].factionId
                 /\ Sq(m[i].x - m[j].x) + Sq(m[i].y - m[j].y)
                      < Sq((7 * WarScale) \div 10)})

\* C23 (unit-vs-unit skirmish): in each executed tick every unit loses 5 hit
\* points for every unit of another faction less than 0.7 away after the
\* movement, once per pair and whatever the hit points of either, and
\* nothing for a unit of its own faction; the units left with no hit points
\* are removed after the pass and the others stay.
C23_Skirmish ==
  [][wret'.ticked =>
       \A i \in 1..Len(C23_Moved) :
         IF C23_Moved[i].hp - (5 * C23_Pairs(C23_Moved, i)) > 0
         THEN \E k \in 1..Len(units') :
                units'[k] = [C23_Moved[i] EXCEPT
                               !.hp = @ - (5 * C23_Pairs(C23_Moved, i))]
         ELSE C23_Moved[i].id \notin IdsOf(units')]_vars

\* The event that reports the founding of base b.
C24_Established(b) ==
  <<factions[b.factionId].name, " established a new base near ">>
    \o getAreaName("city", b.x, b.y) \o <<".">>

\* The events due for the step of a unit that led from the bases before to
\* the bases after: one for each base lost and one for each base founded.
C24_Due(before, after) ==
  {<<factions[before[n].factionId].name, " lost a base near ">>
     \o getAreaName("city", before[n].x, before[n].y)
     \o <<" in heavy fighting.">> :
     n \in {j \in 1..Len(before) : before[j].id \notin IdsOf(after)}}
    \cup {C24_Established(after[n]) :
            n \in {j \in 1..Len(after) : after[j].id \notin IdsOf(before)}}

\* The messages of a list of arrivals, in order.
RECURSIVE C24_Messages(_, _)
C24_Messages(arrivals, n) ==
  IF n > Len(arrivals) THEN <<>>
  ELSE arrivals[n].notified \o C24_Messages(arrivals, n + 1)

\* C24 (event provenance): the ring is empty after construction; a tick hands
\* to onEvent exactly one event for each base founded and each base
\* destroyed in it, in the order in which that happened, and no other event;
\* the ring receives the same events in the same order, newest first, so it
\* stays as it is while no base is founded or destroyed.
C24_Provenance ==
  [][/\ ticks = 0 => recentEvents = <<>>
     /\ wret'.ticked =>
          /\ wret'.notified = C24_Messages(wret'.arrivals, 1)
          /\ \A n \in 1..Len(wret'.arrivals) :
               /\ {wret'.arrivals[n].notified[j] :
                     j \in 1..Len(wret'.arrivals[n].notified)}
                    = C24_Due(wret'.arrivals[n].before, wret'.arrivals[n].after)
               /\ Len(wret'.arrivals[n].notified)
                    = Cardinality(IdsOf(wret'.arrivals[n].before)
                                    \ IdsOf(wret'.arrivals[n].after))
                        + Cardinality(IdsOf(wret'.arrivals[n].after)
                                        \ IdsOf(wret'.arrivals[n].before))
          /\ IdsOf(bases') \ IdsOf(bases) =
               UNION {IdsOf(wret'.arrivals[n].after) \ IdsOf(wret'.arrivals[n].before) :
                        n \in 1..Len(wret'.arrivals)} \ wret'.razed
          /\ Len(recentEvents') = Min2(10, Len(recentEvents) + Len(wret'.notified))
          /\ \A n \in 1..Len(recentEvents') :
               recentEvents'[n].msg =
                 IF n <= Len(wret'.notified)
                 THEN wret'.notified[(Len(wret'.notified) + 1) - n]
                 ELSE recentEvents[n - Len(wret'.notified)].msg]_vars

\* The ring holds the founding of a base and, newer, the loss of a base.
C24_Witness ==
  /\ Len(recentEvents) >= 2
  /\ recentEvents[1].msg[2] = " lost a base near "
  /\ \E n \in 2..Len(recentEvents) :
       recentEvents[n].msg[2] = " established a new base near "

\* The radius that a handleCollisions call works with.
C25_Radius == IF ret.arg = 0 THEN (7 * FP) \div 10 ELSE ret.arg

\* The colliders whose inflated box strictly contains position pos.
C25_Around(pos) ==
  {k \in 1..Len(colliders) :
     /\ pos.x > colliders[k].minX - C25_Radius
     /\ pos.x < colliders[k].maxX + C25_Radius
     /\ pos.z > colliders[k].minZ - C25_Radius
     /\ pos.z < colliders[k].maxZ + C25_Radius}

\* The distances of pos to the inflated edges minX, maxX, minZ, maxZ of c.
C25_Gaps(pos, c) ==
  <<Abs(pos.x - (c.minX - C25_Radius)), Abs(pos.x - (c.maxX + C25_Radius)),
    Abs(pos.z - (c.minZ - C25_Radius)), Abs(pos.z - (c.maxZ + C25_Radius))>>

\* The first of the four edges at the least distance.
C25_Edge(gaps) ==
  CHOOSE e \in 1..4 :
    /\ \A f \in 1..4 : gaps[e] <= gaps[f]
    /\ \A f \in 1..(e - 1) : gaps[f] > gaps[e]

\* pos moved onto edge e of the inflated box of c.
C25_OnEdge(pos, c, e) ==
  IF e = 1 THEN [pos EXCEPT !.x = c.minX - C25_Radius]
  ELSE IF e = 2 THEN [pos EXCEPT !.x = c.maxX + C25_Radius]
  ELSE IF e = 3 THEN [pos EXCEPT !.z = c.minZ - C25_Radius]
  ELSE [pos EXCEPT !.z = c.maxZ + C25_Radius]

\* C25 (collision push-out): after handleCollisions y is at least 1.6 (in
\* units of 1/FP, rounded down as the floor of the model is) and is
\* the y handed in when that was at least 1.6; a position outside every
\* inflated box keeps its x and z; a position strictly inside the inflated
\* box of one collider only, whose nearest inflated edge (the first in the
\* order minX, maxX, minZ, maxZ among equals) lies in no other inflated box,
\* is moved onto that edge, which changes one of x and z only and leaves it
\* not strictly inside that box.
C25_PushOut ==
  ret.op = "handleCollisions" =>
    /\ ret.value[1].y >= (16 * FP) \div 10
    /\ ret.pos.y >= (16 * FP) \div 10 => ret.value[1].y = ret.pos.y
    /\ C25_Around(ret.pos) = {} =>
         ret.value[1].x = ret.pos.x /\ ret.value[1].z = ret.pos.z
    /\ \A k \in C25_Around(ret.pos) :
         LET q == C25_OnEdge(ret.pos, colliders[k],
                             C25_Edge(C25_Gaps(ret.pos, colliders[k])))
         IN  (C25_Around(ret.pos) = {k} /\ C25_Around(q) = {}) =>
               /\ ret.value[1].x = q.x
               /\ ret.value[1].z = q.z
               /\ (ret.value[1].x = ret.pos.x) # (ret.value[1].z = ret.pos.z)
               /\ k \notin C25_Around(ret.value[1])

\* A call that left the position strictly inside the inflated box of a
\* collider that had pushed it out, a later collider having pushed it back.
C25_Witness ==
  /\ ret.op = "handleCollisions"
  /\ \E k \in C25_Around(ret.pos) :
       /\ k \in C25_Around(ret.value[1])
       /\ \E j \in (k + 1)..Len(colliders) :
            j \in C25_Around(C25_OnEdge(ret.pos, colliders[k],
                                        C25_Edge(C25_Gaps(ret.pos, colliders[k]))))

\* The lots of a chunk: 4 by 4 in a city, 3 by 3 elsewhere.
C26_Lots(ch) ==
  IF ch.type = "city" THEN (0..3) \X (0..3) ELSE (0..2) \X (0..2)

\* The hash value of lot l of chunk ch, times HashScale.
C26_R(ch, l) ==
  seededRandom((ch.cx * 92821 + ch.cz * 68917 + globalSeed * 3) + l[1] * 17,
               (ch.cx * 92821 + ch.cz * 68917 + globalSeed * 3) + l[2] * 37, 99)

\* The doors of lot l of chunk ch.
C26_Doors(ch, l) ==
  {k \in 1..Len(doors) : doors[k].id = <<ch.cx, ch.cz, l[1], l[2]>>}

\* The number of colliders and of doors that belong to chunk ch.
C26_Count(list, ch) == Cardinality({k \in 1..Len(list) : list[k].chunkKey = ch.key})

\* C26 (lot and door classification): in a loaded city or suburb chunk a lot
\* has a door, and a collider, iff its hash value r is at least 0.2, and its
\* door leads to a shop iff r < 0.5 and to an office otherwise; a loaded
\* park, highway or wasteland chunk has no collider and no door.
C26_Classification ==
  \A n \in 1..Len(chunks) :
    IF chunks[n].type \in {"city", "suburb"}
    THEN /\ \A l \in C26_Lots(chunks[n]) :
              /\ Cardinality(C26_Doors(chunks[n], l))
                   = IF C26_R(chunks[n], l) * 10 < 2 * HashScale THEN 0 ELSE 1
              /\ \A k \in C26_Doors(chunks[n], l) :
                   /\ doors[k].chunkKey = chunks[n].key
                   /\ doors[k].interiorType
                        = IF C26_R(chunks[n], l) * 10 < 5 * HashScale
                          THEN "shop" ELSE "office"
         /\ C26_Count(colliders, chunks[n])
              = Cardinality({l \in C26_Lots(chunks[n]) :
                               C26_R(chunks[n], l) * 10 >= 2 * HashScale})
         /\ C26_Count(doors, chunks[n]) = C26_Count(colliders, chunks[n])
    ELSE /\ chunks[n].type \in {"park", "highway", "wasteland"}
         /\ C26_Count(colliders, chunks[n]) = 0
         /\ C26_Count(doors, chunks[n]) = 0

\* A loaded chunk with an empty lot, a shop and an office, and a loaded chunk
\* of a type without buildings.
C26_Witness ==
  /\ \E n \in 1..Len(chunks) :
       /\ chunks[n].type \in {"city", "suburb"}
       /\ \E l \in C26_Lots(chunks[n]) : C26_R(chunks[n], l) * 10 < 2 * HashScale
       /\ \E k \in 1..Len(doors) :
            doors[k].chunkKey = chunks[n].key /\ doors[k].interiorType = "shop"
       /\ \E k \in 1..Len(doors) :
            doors[k].chunkKey = chunks[n].key /\ doors[k].interiorType = "office"
  /\ \E n \in 1..Len(chunks) : chunks[n].type \in {"park", "highway", "wasteland"}

C28_Dist(x, z) ==
  IF Abs(x - ChunkCoord(ret'.pos[1])) >= Abs(z - ChunkCoord(ret'.pos[2]))
  THEN Abs(x - ChunkCoord(ret'.pos[1]))
  ELSE Abs(z - ChunkCoord(ret'.pos[2]))

\* The chunks no further than d from that reference chunk on either axis.
C28_Square(d) ==
  ((ChunkCoord(ret'.pos[1]) - d)..(ChunkCoord(ret'.pos[1]) + d))
    \X ((ChunkCoord(ret'.pos[2]) - d)..(ChunkCoord(ret'.pos[2]) + d))

\* C28 (eviction hysteresis): an update call neither generates nor evicts a
\* chunk at Chebyshev distance exactly activeRadius + 1 from its reference
\* chunk, which is loaded after the call iff it was loaded before; after the
\* call every chunk of the window of side 2 * activeRadius + 1 is loaded and
\* every loaded chunk lies in the window of side 2 * activeRadius + 3, at
\* most 25 chunks.
C28_Hysteresis ==
  [][updates' = updates + 1 =>
       /\ \A c \in C28_Square(activeRadius + 1) :
            C28_Dist(c[1], c[2]) = activeRadius + 1 =>
              /\ HasChunk(chunks', chunkKey(c[1], c[2]))
                   = HasChunk(chunks, chunkKey(c[1], c[2]))
              /\ chunkKey(c[1], c[2]) \notin ret'.evicted
              /\ \A n \in 1..Len(ret'.generated) :
                   ret'.generated[n] # chunkKey(c[1], c[2])
       /\ \A c \in C28_Square(activeRadius) : HasChunk(chunks', chunkKey(c[1], c[2]))
       /\ \A n \in 1..Len(chunks') :
            <<chunks'[n].cx, chunks'[n].cz>> \in C28_Square(activeRadius + 1)
       /\ Len(chunks') <= (2 * activeRadius + 3) * (2 * activeRadius + 3)
       /\ Len(chunks') <= 25]_vars

\* After an update call a chunk at distance activeRadius + 1 from the
\* reference chunk is loaded, kept from an earlier window, and another at
\* that distance is not: the loaded set lies between the two windows.
C28_Witness ==
  /\ ret.op = "update"
  /\ ret.evicted # {}
  /\ \E n \in 1..Len(chunks) :
       \/ Abs(chunks[n].cx - RefX) = activeRadius + 1
       \/ Abs(chunks[n].cz - RefZ) = activeRadius + 1
  /\ \E x \in {RefX - (activeRadius + 1), RefX + activeRadius + 1} :
       ~HasChunk(chunks, chunkKey(x, RefZ))

\* The seed of the generator after n draws from seed s.
RECURSIVE C29_Drawn(_, _)
C29_Drawn(s, n) == IF n = 0 THEN s ELSE C29_Drawn(Xorshift(s), n - 1)

\* The bases and units that the logic would leave had n more draws been made
\* before it.
C29_After(n) ==
  LET w == tick([Running EXCEPT !.seed = C29_Drawn(randomSeed, n)])
  IN  <<w.bases, w.units>>

\* C29 (accessor perturbs the simulation generator): a getRandomRecentEvent
\* call advances the seed of the generator by exactly one draw when the ring
\* is not empty and leaves it alone when the ring is empty; a
\* getStatusSummary call leaves the seed and every other field alone; and a
\* tick run with a non-empty ring leaves other bases or units than it would
\* have left after one or two more draws.
C29_Perturbs ==
  [][/\ wret'.op = "getRandomRecentEvent" =>
          /\ randomSeed' = IF recentEvents = <<>> THEN randomSeed
                           ELSE Xorshift(randomSeed)
          /\ recentEvents # <<>> => randomSeed' # randomSeed
     /\ wret'.op = "getStatusSummary" =>
          UNCHANGED <<randomSeed, bases, units, recentEvents, lastBaseId,
                      lastUnitId, timeAccumulator>>
     /\ (wret'.ticked /\ recentEvents # <<>>) =>
          \A n \in 1..MaxSamples : C29_After(n) # <<bases', units'>>]_vars

\* A getRandomRecentEvent call has been made on a ring that holds an event.
C29_Witness ==
  /\ wret.op = "getRandomRecentEvent"
  /\ recentEvents # <<>>
  /\ wret.threw \/ wret.value # Null

\* The number of times an update call gathered for the base of the given id.
C30_Gathers(id) ==
  Cardinality({n \in 1..Len(wret'.trace) :
                 wret'.trace[n].base = id /\ wret'.trace[n].point = "gather"})

\* C30 (at most one tick per call, remainder discarded): an update(dt) call
\* runs the logic at most once however large dt is, so that no base gathers
\* twice in a call; a call that runs the logic leaves the accumulator at
\* exactly 0 and a call that does not adds dt to it; and after every call
\* with dt >= 0 the accumulator is at least 0 and below 0.5.
C30_OneTick ==
  [][wret'.op = "update" =>
       /\ wret'.dt >= 0
       /\ ticks' = ticks + (IF wret'.ticked THEN 1 ELSE 0)
       /\ \A k \in 1..Len(bases) : C30_Gathers(bases[k].id) <= 1
       /\ wret'.ticked = (2 * (timeAccumulator + wret'.dt) >= TimeScale)
       /\ timeAccumulator' = IF wret'.ticked THEN 0 ELSE timeAccumulator + wret'.dt
       /\ 0 <= timeAccumulator' /\ 2 * timeAccumulator' < TimeScale]_vars

\* An update call of 2 seconds, four periods, ran the logic, in which the
\* bases gathered, and left the accumulator at 0.
C30_Witness ==
  /\ wret.ticked
  /\ wret.dt = 2 * TimeScale
  /\ ticks >= 2
  /\ timeAccumulator = 0
  /\ \E n \in 1..Len(wret.trace) : wret.trace[n].point = "gather"

====
